---- MODULE Spec2Model ----
(***************************************************************************)
(* Model of the pcap -> parquet converter for NASDAQ TotalView-ITCH 5.0    *)
(* (src/nasdaq/nasdaq_equities_totalview_itch_v5_0.cpp).  The framing      *)
(* types and converter::process of the JNX PTS-ITCH 1.6 converter          *)
(* (src/jnx/jnx_equities_pts_itch_v1_6.cpp) are the same code line for     *)
(* line, so the driver modelled here is the driver of both feeds.          *)
(*                                                                         *)
(* A captured frame is a byte array; the converter walks it with pointer   *)
(* cursors, modelled as 0-based offsets into the array.  Unsigned integers *)
(* wider than 16 bits are held as their base-256 digits, most significant  *)
(* first, so that 32, 48 and 64 bit values keep their width.               *)
(***************************************************************************)
EXTENDS Integers, Sequences, FiniteSets, TLC

VARIABLES
    pc,        \* where the program is: "main", "write_parquet" (at
               \* pcap_open_offline), "construct" (at the converter's constructor),
               \* "idle" (at pcap_next_ex), "messages" (inside the while loop of
               \* converter::process), "closing", "closed" (after converter.close(),
               \* after pcap_close), "done" (write_parquet has returned), "exited"
               \* (main has returned), "threw" (left by an exception nobody
               \* catches), "crashed" (killed by a read outside the buffer)
    packet,    \* the pcap record being processed: index into Capture, 0 if none
    current,   \* converter::process's cursor `current`, an offset into the frame
    record,    \* converter::record, the long-lived row
    rows,      \* the rows handed to the parquet writer, in order (the file's tail)
    nrows,     \* number of rows handed to the writer so far
    fed,       \* fed[k]: the record of Capture handed to converter::process k-th
    yielded,   \* yielded[k]: rows written while processing the k-th pcap record
    pcap_open, \* the pcap handle is open
    flushed,   \* number of rows covered by the writer's last EndRowGroup
    length,    \* converter::process's local `length`, set by the demuxer
    writer_open, \* the converter object, and the writer it holds, is alive
    returned,  \* the values pcap_next_ex has returned, in order
    main       \* main: which of the two programs it is (feed), argc, the
               \* options, what it printed, called and returned, whether
               \* pcap_open_offline has succeeded, and the rows read_parquet read

vars == << pc, packet, current, record, rows, nrows, fed, yielded,
           pcap_open, flushed, length, writer_open, returned, main >>

-----------------------------------------------------------------------------
(* Bounds of the model.                                                    *)

\* pcap records a capture file holds
MaxRecords == 3
\* rows the writer accepts before the model stops following a run
MaxRows == 6
\* pcap records a capture of the catalog specification (SpecCatalog) holds
CatalogRecords == 2
\* pcap records a capture of the codec specification (SpecCodec) holds
CodecRecords == 1
\* pcap records a capture of the JNX specification (SpecJnx) holds
JnxRecords == 2
\* pcap records a capture of the driver specification (SpecDriver) holds
DriverRecords == 2
\* the largest argc main is started with
MaxArgc == 4
\* rows followed in the specification of the 16-bit message loop (SpecWrap)
WrapRows == 65538
\* rows of the file's tail kept in the specification of the 16-bit loop
WrapKeep == 2

-----------------------------------------------------------------------------
(* Widths and protocol numbers of the program.                             *)

\* std::uint16_t message_index::data, message_index::count
UInt16 == 65536
\* ETHERTYPE_IP
ETHERTYPE_IP == 2048
\* IPPROTO_UDP
IPPROTO_UDP == 17
\* sizeof(udphdr)
UdpHdrLen == 8
\* the two MAC addresses the demuxer skips
EtherAddrs == 12
\* the 4 bytes skipped per non-IPv4 EtherType
ShimLen == 4
\* session::size
SessionSize == 10
\* message_sequence::size
SequenceSize == 8
\* message_index::size
IndexSize == 2
\* message_length::size
LengthSize == 2
\* message_type::size
TypeSize == 1
\* offset of ip_p in struct ip
IpProtoOff == 9
\* offset of uh_ulen in struct udphdr
UdpLenOff == 4

-----------------------------------------------------------------------------
(* Byte arrays.                                                            *)

Reverse(s) == [i \in 1..Len(s) |-> s[Len(s) + 1 - i]]

Zeros(n) == [i \in 1..n |-> 0]

\* A frame is the bytes `data` followed by `pad` zero bytes (a zero-filled
\* trailer of the captured record).  Its captured length:
BufLen(f) == Len(f.data) + f.pad

\* The byte at offset i.  A read at or past BufLen(f) is outside the buffer
\* pcap handed over: undefined behaviour, which yields the byte g when the
\* process survives it.
ByteAt(f, g, i) ==
    IF i < Len(f.data) THEN f.data[i + 1]
    ELSE IF i < BufLen(f) THEN 0
    ELSE g

Bytes(f, g, off, n) == [i \in 1..n |-> ByteAt(f, g, off + i - 1)]

\* A native load of n bytes on the little-endian build host, as digits.
Load(f, g, off, n) == Reverse(Bytes(f, g, off, n))

\* htobe16 / htobe32 / htobe64 on the little-endian build host: a byte swap.
htobe(v) == Reverse(v)

\* ntohs(*reinterpret_cast<const u_short*>(p))
ntohs(f, g, off) == ByteAt(f, g, off) * 256 + ByteAt(f, g, off + 1)

\* The value of a 16-bit digit pair.
U16(v) == v[1] * 256 + v[2]

\* data++ on a std::uint64_t held as 8 digits: ripple carry, wraps at 2^64.
RECURSIVE Inc(_, _)
Inc(v, i) ==
    IF i = 0 THEN v
    ELSE IF v[i] = 255 THEN Inc([v EXCEPT ![i] = 0], i - 1)
    ELSE [v EXCEPT ![i] = v[i] + 1]

Inc64(v) == Inc(v, Len(v))

-----------------------------------------------------------------------------
(* Field codecs: the `set` of every optional message field.                *)

\* kind "be": htobeN of a native load; "char": one byte verbatim; "ascii":
\* the bytes before the first 0x20; "ts": the 6-byte shift-and-add loop.
Fields ==
    [ attribution                     |-> [kind |-> "ascii", size |-> 4]
    , auction_collar_extension        |-> [kind |-> "be",    size |-> 4]
    , auction_collar_reference_price  |-> [kind |-> "be",    size |-> 4]
    , authenticity                    |-> [kind |-> "char",  size |-> 1]
    , breached_level                  |-> [kind |-> "char",  size |-> 1]
    , buy_sell_indicator              |-> [kind |-> "char",  size |-> 1]
    , canceled_shares                 |-> [kind |-> "be",    size |-> 4]
    , cross_price                     |-> [kind |-> "be",    size |-> 4]
    , cross_shares                    |-> [kind |-> "be",    size |-> 8]
    , cross_type                      |-> [kind |-> "char",  size |-> 1]
    , current_reference_price         |-> [kind |-> "be",    size |-> 4]
    , etp_flag                        |-> [kind |-> "char",  size |-> 1]
    , etp_leverage_factor             |-> [kind |-> "be",    size |-> 4]
    , event_code                      |-> [kind |-> "char",  size |-> 1]
    , executed_shares                 |-> [kind |-> "be",    size |-> 4]
    , execution_price                 |-> [kind |-> "be",    size |-> 4]
    , far_price                       |-> [kind |-> "be",    size |-> 4]
    , financial_status_indicator      |-> [kind |-> "char",  size |-> 1]
    , imbalance_direction             |-> [kind |-> "char",  size |-> 1]
    , imbalance_shares                |-> [kind |-> "be",    size |-> 8]
    , interest_flag                   |-> [kind |-> "char",  size |-> 1]
    , inverse_indicator               |-> [kind |-> "char",  size |-> 1]
    , ipo_flag                        |-> [kind |-> "char",  size |-> 1]
    , ipo_price                       |-> [kind |-> "be",    size |-> 4]
    , ipo_quotation_release_qualifier |-> [kind |-> "char",  size |-> 1]
    , ipo_quotation_release_time      |-> [kind |-> "be",    size |-> 4]
    , issue_classification            |-> [kind |-> "char",  size |-> 1]
    , issue_sub_type                  |-> [kind |-> "ascii", size |-> 2]
    , level_1                         |-> [kind |-> "be",    size |-> 8]
    , level_2                         |-> [kind |-> "be",    size |-> 8]
    , level_3                         |-> [kind |-> "be",    size |-> 8]
    , locate_code                     |-> [kind |-> "be",    size |-> 2]
    , lower_auction_collar_price      |-> [kind |-> "be",    size |-> 4]
    , luld_reference_price_tier       |-> [kind |-> "char",  size |-> 1]
    , market_category                 |-> [kind |-> "char",  size |-> 1]
    , market_maker_mode               |-> [kind |-> "char",  size |-> 1]
    , market_participant_state        |-> [kind |-> "char",  size |-> 1]
    , match_number                    |-> [kind |-> "be",    size |-> 8]
    , mpid                            |-> [kind |-> "ascii", size |-> 4]
    , near_price                      |-> [kind |-> "be",    size |-> 4]
    , new_order_reference_number      |-> [kind |-> "be",    size |-> 8]
    , order_reference_number          |-> [kind |-> "be",    size |-> 8]
    , original_order_reference_number |-> [kind |-> "be",    size |-> 8]
    , paired_shares                   |-> [kind |-> "be",    size |-> 8]
    , price                           |-> [kind |-> "be",    size |-> 4]
    , price_variation_indicator       |-> [kind |-> "char",  size |-> 1]
    , primary_market_maker            |-> [kind |-> "char",  size |-> 1]
    , printable                       |-> [kind |-> "char",  size |-> 1]
    , reason                          |-> [kind |-> "ascii", size |-> 4]
    , reg_sho_action                  |-> [kind |-> "char",  size |-> 1]
    , reserved                        |-> [kind |-> "char",  size |-> 1]
    , round_lot_size                  |-> [kind |-> "be",    size |-> 4]
    , round_lots_only                 |-> [kind |-> "char",  size |-> 1]
    , shares                          |-> [kind |-> "be",    size |-> 4]
    , short_sale_threshold_indicator  |-> [kind |-> "char",  size |-> 1]
    , stock                           |-> [kind |-> "ascii", size |-> 8]
    , stock_locate                    |-> [kind |-> "be",    size |-> 2]
    , timestamp                       |-> [kind |-> "ts",    size |-> 6]
    , tracking_number                 |-> [kind |-> "be",    size |-> 2]
    , trading_state                   |-> [kind |-> "char",  size |-> 1]
    , upper_auction_collar_price      |-> [kind |-> "be",    size |-> 4]
    ]

\* record::reset(): the slots it resets.
ResetFields ==
    { "attribution", "auction_collar_extension", "auction_collar_reference_price",
      "authenticity", "breached_level", "buy_sell_indicator",
      "canceled_shares", "cross_price", "cross_shares",
      "cross_type", "current_reference_price", "etp_flag",
      "etp_leverage_factor", "event_code", "executed_shares",
      "execution_price", "far_price", "financial_status_indicator",
      "imbalance_direction", "imbalance_shares", "interest_flag",
      "inverse_indicator", "ipo_flag", "ipo_price",
      "ipo_quotation_release_qualifier", "ipo_quotation_release_time", "issue_classification",
      "issue_sub_type", "level_1", "level_2",
      "level_3", "locate_code", "lower_auction_collar_price",
      "luld_reference_price_tier", "market_category", "market_maker_mode",
      "market_participant_state", "match_number", "mpid",
      "near_price", "new_order_reference_number", "order_reference_number",
      "original_order_reference_number", "paired_shares", "price",
      "price_variation_indicator", "primary_market_maker", "printable",
      "reason", "reg_sho_action", "reserved",
      "round_lot_size", "round_lots_only", "shares",
      "short_sale_threshold_indicator", "stock", "stock_locate",
      "timestamp", "tracking_number", "trading_state",
      "upper_auction_collar_price" }

\* A reset that leaves the attribution slot as it was.
ResetWithoutAttribution(opt) ==
    [x \in (DOMAIN opt) \ (ResetFields \ {"attribution"}) |-> opt[x]]

\* An optional slot is present iff its name is in the domain of `opt`.
Reset(opt) == [x \in (DOMAIN opt) \ ResetFields |-> opt[x]]

Put(opt, name, v) == [x \in (DOMAIN opt) \cup {name} |-> IF x = name THEN v ELSE opt[x]]

\* A scan that never finds a space: the whole field is kept.
SpaceIndexKeepAll(f, g, off, size, index) == size

\* index after:  for (; index < size; ++index) if (p[index] == ' ') break;
RECURSIVE SpaceIndex(_, _, _, _, _)
SpaceIndex(f, g, off, size, index) ==
    IF index < size /\ ByteAt(f, g, off + index) # 32
    THEN SpaceIndex(f, g, off, size, index + 1)
    ELSE index

\* A loop that puts each byte above the ones read before it.
ShiftAddReversed(f, g, off, size, i, value) ==
    Zeros(Len(value) - size) \o [j \in 1..size |-> ByteAt(f, g, off + size - j)]

\* value after:  for (i < size) { value = (value << 8) + **current; ++*current; }
RECURSIVE ShiftAdd(_, _, _, _, _, _)
ShiftAdd(f, g, off, size, i, value) ==
    IF i < size
    THEN ShiftAdd(f, g, off, size, i + 1, Tail(value) \o << ByteAt(f, g, off + i) >>)
    ELSE value

\* <field>::set(current): the value stored in the slot.
FieldValue(f, g, off, name) ==
    LET kind == Fields[name].kind
        size == Fields[name].size
    IN  CASE kind = "be"    -> htobe(Load(f, g, off, size))
          [] kind = "char"  -> << ByteAt(f, g, off) >>
          [] kind = "ascii" -> Bytes(f, g, off, SpaceIndex(f, g, off, size, 0))
          [] kind = "ts"    -> ShiftAdd(f, g, off, size, 0, Zeros(8))

-----------------------------------------------------------------------------
(* The message catalog: converter::process(message, message_type) and the  *)
(* process_*_message handlers it dispatches to.                            *)

Handler(message_type) ==
    CASE message_type = 83 ->  \* 'S' process_system_event_message
            << "stock_locate", "tracking_number", "timestamp",
               "event_code" >>
      [] message_type = 82 ->  \* 'R' process_stock_directory_message
            << "stock_locate", "tracking_number", "timestamp",
               "stock", "market_category", "financial_status_indicator",
               "round_lot_size", "round_lots_only", "issue_classification",
               "issue_sub_type", "authenticity", "short_sale_threshold_indicator",
               "ipo_flag", "luld_reference_price_tier", "etp_flag",
               "etp_leverage_factor", "inverse_indicator" >>
      [] message_type = 72 ->  \* 'H' process_stock_trading_action_message
            << "stock_locate", "tracking_number", "timestamp",
               "stock", "trading_state", "reserved",
               "reason" >>
      [] message_type = 89 ->  \* 'Y' process_reg_sho_short_sale_price_test_restricted_indicator_message
            << "locate_code", "tracking_number", "timestamp",
               "stock", "reg_sho_action" >>
      [] message_type = 76 ->  \* 'L' process_market_participant_position_message
            << "stock_locate", "tracking_number", "timestamp",
               "mpid", "stock", "primary_market_maker",
               "market_maker_mode", "market_participant_state" >>
      [] message_type = 86 ->  \* 'V' process_mwcb_decline_level_message
            << "stock_locate", "tracking_number", "timestamp",
               "level_1", "level_2", "level_3" >>
      [] message_type = 87 ->  \* 'W' process_mwcb_status_level_message
            << "stock_locate", "tracking_number", "timestamp",
               "breached_level" >>
      [] message_type = 75 ->  \* 'K' process_ipo_quoting_period_update
            << "stock_locate", "tracking_number", "timestamp",
               "stock", "ipo_quotation_release_time", "ipo_quotation_release_qualifier",
               "ipo_price" >>
      [] message_type = 65 ->  \* 'A' process_add_order_no_mpid_attribution_message
            << "stock_locate", "tracking_number", "timestamp",
               "order_reference_number", "buy_sell_indicator", "shares",
               "stock", "price" >>
      [] message_type = 74 ->  \* 'J' process_luld_auction_collar_message
            << "stock_locate", "tracking_number", "timestamp",
               "stock", "auction_collar_reference_price", "upper_auction_collar_price",
               "lower_auction_collar_price", "auction_collar_extension" >>
      [] message_type = 70 ->  \* 'F' process_add_order_with_mpid_attribution_message
            << "stock_locate", "tracking_number", "timestamp",
               "order_reference_number", "buy_sell_indicator", "shares",
               "stock", "price", "attribution" >>
      [] message_type = 69 ->  \* 'E' process_order_executed_message
            << "stock_locate", "tracking_number", "timestamp",
               "order_reference_number", "executed_shares", "match_number" >>
      [] message_type = 67 ->  \* 'C' process_order_executed_with_price_message
            << "stock_locate", "tracking_number", "timestamp",
               "order_reference_number", "executed_shares", "match_number",
               "printable", "execution_price" >>
      [] message_type = 88 ->  \* 'X' process_order_cancel_message
            << "stock_locate", "tracking_number", "timestamp",
               "order_reference_number", "canceled_shares" >>
      [] message_type = 68 ->  \* 'D' process_order_delete_message
            << "stock_locate", "tracking_number", "timestamp",
               "order_reference_number" >>
      [] message_type = 85 ->  \* 'U' process_order_replace_message
            << "stock_locate", "tracking_number", "timestamp",
               "original_order_reference_number", "new_order_reference_number", "shares",
               "price" >>
      [] message_type = 80 ->  \* 'P' process_non_cross_trade_message
            << "stock_locate", "tracking_number", "timestamp",
               "order_reference_number", "buy_sell_indicator", "shares",
               "stock", "price", "match_number" >>
      [] message_type = 81 ->  \* 'Q' process_cross_trade_message
            << "stock_locate", "tracking_number", "timestamp",
               "cross_shares", "stock", "cross_price",
               "match_number", "cross_type" >>
      [] message_type = 66 ->  \* 'B' process_broken_trade_message
            << "stock_locate", "tracking_number", "timestamp",
               "match_number" >>
      [] message_type = 73 ->  \* 'I' process_net_order_imbalance_indicator_message
            << "stock_locate", "tracking_number", "timestamp",
               "paired_shares", "imbalance_shares", "imbalance_direction",
               "stock", "far_price", "near_price",
               "current_reference_price", "cross_type", "price_variation_indicator" >>
      [] message_type = 78 ->  \* 'N' process_retail_interest_message
            << "stock_locate", "tracking_number", "timestamp",
               "stock", "interest_flag" >>
      [] OTHER -> << >>

Catalog == { 83, 82, 72, 89, 76, 86, 87, 75, 65, 74, 70,
             69, 67, 88, 68, 85, 80, 81, 66, 73, 78 }

\* The handler's `set` calls in order, each advancing the message cursor.
RECURSIVE SetFields(_, _, _, _, _, _)
SetFields(f, g, names, k, off, opt) ==
    IF k > Len(names) THEN opt
    ELSE SetFields(f, g, names, k + 1, off + Fields[names[k]].size,
                   Put(opt, names[k], FieldValue(f, g, off, names[k])))

\* Bytes the handler of a type reads after the type byte.
RECURSIVE Width(_, _)
Width(names, k) ==
    IF k > Len(names) THEN 0 ELSE Fields[names[k]].size + Width(names, k + 1)

process(f, g, message, message_type, opt) ==
    SetFields(f, g, Handler(message_type), 1, message, opt)

-----------------------------------------------------------------------------
(* The JNX PTS-ITCH 1.6 converter (src/jnx/jnx_equities_pts_itch_v1_6.cpp):  *)
(* its optional fields, its record::reset and its dispatch.  Its framing   *)
(* types, demuxer and converter::process are those of the NASDAQ converter.*)

JnxFields ==
    [ attribution              |-> [kind |-> "ascii", size |-> 4]
    , buy_sell_indicator       |-> [kind |-> "char",  size |-> 1]
    , executed_quantity        |-> [kind |-> "be",    size |-> 4]
    , group                    |-> [kind |-> "ascii", size |-> 4]
    , lower_price_limit        |-> [kind |-> "be",    size |-> 4]
    , match_number             |-> [kind |-> "be",    size |-> 8]
    , new_order_number         |-> [kind |-> "be",    size |-> 8]
    , order_number             |-> [kind |-> "be",    size |-> 8]
    , order_type               |-> [kind |-> "char",  size |-> 1]
    , orderbook_code           |-> [kind |-> "ascii", size |-> 12]
    , orderbook_id             |-> [kind |-> "be",    size |-> 4]
    , original_order_number    |-> [kind |-> "be",    size |-> 8]
    , price                    |-> [kind |-> "be",    size |-> 4]
    , price_decimals           |-> [kind |-> "be",    size |-> 4]
    , price_start              |-> [kind |-> "be",    size |-> 4]
    , price_tick_size          |-> [kind |-> "be",    size |-> 4]
    , price_tick_size_table_id |-> [kind |-> "be",    size |-> 4]
    , quantity                 |-> [kind |-> "be",    size |-> 4]
    , round_lot_size           |-> [kind |-> "be",    size |-> 4]
    , short_selling_state      |-> [kind |-> "char",  size |-> 1]
    , system_event             |-> [kind |-> "char",  size |-> 1]
    , timestamp_nanoseconds    |-> [kind |-> "be",    size |-> 4]
    , timestamp_seconds        |-> [kind |-> "be",    size |-> 4]
    , trading_state            |-> [kind |-> "char",  size |-> 1]
    , upper_price_limit        |-> [kind |-> "be",    size |-> 4]
    ]

\* record::reset() of the JNX record: the slots it resets.
JnxResetFields ==
    { "attribution", "buy_sell_indicator", "executed_quantity",
      "group", "lower_price_limit", "match_number",
      "new_order_number", "order_number", "order_type",
      "orderbook_code", "orderbook_id", "original_order_number",
      "price", "price_decimals", "price_start",
      "price_tick_size", "price_tick_size_table_id", "quantity",
      "round_lot_size", "short_selling_state", "system_event",
      "timestamp_nanoseconds", "timestamp_seconds", "trading_state",
      "upper_price_limit" }

JnxHandler(message_type) ==
    CASE message_type = 84 ->  \* 'T' process_timestamp_seconds_message
            << "timestamp_seconds" >>
      [] message_type = 83 ->  \* 'S' process_system_event_message
            << "timestamp_nanoseconds", "group", "system_event" >>
      [] message_type = 76 ->  \* 'L' process_price_tick_size_message
            << "timestamp_nanoseconds", "price_tick_size_table_id", "price_tick_size",
               "price_start" >>
      [] message_type = 82 ->  \* 'R' process_orderbook_directory_message
            << "timestamp_nanoseconds", "orderbook_id", "orderbook_code",
               "group", "round_lot_size", "price_tick_size_table_id",
               "price_decimals", "upper_price_limit", "lower_price_limit" >>
      [] message_type = 72 ->  \* 'H' process_trading_state_message
            << "timestamp_nanoseconds", "orderbook_id", "group",
               "trading_state" >>
      [] message_type = 89 ->  \* 'Y' process_short_selling_price_restriction_state_message
            << "timestamp_nanoseconds", "orderbook_id", "group",
               "short_selling_state" >>
      [] message_type = 65 ->  \* 'A' process_order_added_without_attributes_message
            << "timestamp_nanoseconds", "order_number", "buy_sell_indicator",
               "quantity", "orderbook_id", "group",
               "price" >>
      [] message_type = 70 ->  \* 'F' process_order_added_with_attributes_message
            << "timestamp_nanoseconds", "order_number", "buy_sell_indicator",
               "quantity", "orderbook_id", "group",
               "price", "attribution", "order_type" >>
      [] message_type = 69 ->  \* 'E' process_order_executed_message
            << "timestamp_nanoseconds", "order_number", "executed_quantity",
               "match_number" >>
      [] message_type = 68 ->  \* 'D' process_order_deleted_message
            << "timestamp_nanoseconds", "order_number" >>
      [] message_type = 85 ->  \* 'U' process_order_replaced_message
            << "timestamp_nanoseconds", "original_order_number", "new_order_number",
               "quantity", "price" >>
      [] OTHER -> << >>

JnxCatalog == { 84, 83, 76, 82, 72, 89, 65, 70, 69, 68, 85 }

\* A reset that leaves the orderbook_code slot as it was.
JnxResetWithoutOrderbookCode(opt) ==
    [x \in (DOMAIN opt) \ (JnxResetFields \ {"orderbook_code"}) |-> opt[x]]

JnxReset(opt) == [x \in (DOMAIN opt) \ JnxResetFields |-> opt[x]]

\* <field>::set(current) of the JNX fields: the value stored in the slot.
JnxFieldValue(f, g, off, name) ==
    LET kind == JnxFields[name].kind
        size == JnxFields[name].size
    IN  CASE kind = "be"    -> htobe(Load(f, g, off, size))
          [] kind = "char"  -> << ByteAt(f, g, off) >>
          [] kind = "ascii" -> Bytes(f, g, off, SpaceIndex(f, g, off, size, 0))

RECURSIVE JnxSetFields(_, _, _, _, _, _)
JnxSetFields(f, g, names, k, off, opt) ==
    IF k > Len(names) THEN opt
    ELSE JnxSetFields(f, g, names, k + 1, off + JnxFields[names[k]].size,
                      Put(opt, names[k], JnxFieldValue(f, g, off, names[k])))

RECURSIVE JnxWidth(_, _)
JnxWidth(names, k) ==
    IF k > Len(names) THEN 0 ELSE JnxFields[names[k]].size + JnxWidth(names, k + 1)

JnxProcess(f, g, message, message_type, opt) ==
    JnxSetFields(f, g, JnxHandler(message_type), 1, message, opt)

-----------------------------------------------------------------------------
(* The capture: the pcap records pcap_next_ex can hand over.               *)

Mac == Zeros(EtherAddrs)

EthIPv4 == Mac \o << 8, 0 >>

\* one 802.1Q tag (0x8100, TCI) before the IPv4 EtherType
EthVlan == Mac \o << 129, 0, 0, 5, 8, 0 >>

\* a 20-byte IPv4 header (version 4, IHL 5) with the given protocol
IpHdr(proto) == << 69, 0, 0, 0, 0, 0, 0, 0, 64, proto, 0, 0, 10, 0, 0, 1, 10, 0, 0, 2 >>

UdpHdr(n) == << 0, 1, 0, 2, (n + UdpHdrLen) \div 256, (n + UdpHdrLen) % 256, 0, 0 >>

\* "SESSION001"
Session1 == << 83, 69, 83, 83, 73, 79, 78, 48, 48, 49 >>

\* "ITCH      ": a session id right-padded with spaces
Session2 == << 73, 84, 67, 72, 32, 32, 32, 32, 32, 32 >>

Seq100 == << 0, 0, 0, 0, 0, 0, 0, 100 >>

Seq255 == << 0, 0, 0, 0, 0, 0, 0, 255 >>

SeqZero == Zeros(8)

SeqMax == << 255, 255, 255, 255, 255, 255, 255, 255 >>

Mold(session, sequence, count, blocks) ==
    session \o sequence \o << count \div 256, count % 256 >> \o blocks

Block(body) == << Len(body) \div 256, Len(body) % 256 >> \o body

\* 'S' system event: locate 0, tracking 0, timestamp 0x00000000E100, event 'O'
MsgS == << 83, 0, 0, 0, 0, 0, 0, 0, 0, 225, 0, 79 >>

\* 'D' order delete: locate 1, tracking 0, timestamp 1, order reference 0x0100
MsgD == << 68, 0, 1, 0, 0, 0, 0, 0, 0, 0, 1, 0, 0, 0, 0, 0, 0, 1, 0 >>

\* 'F' add order with MPID: as 'A' plus attribution "MM01"
MsgF == << 70, 0, 1, 0, 0, 0, 0, 0, 0, 0, 1, 0, 0, 0, 0, 0, 0, 1, 0, 66,
           0, 0, 0, 100, 65, 65, 80, 76, 32, 32, 32, 32, 0, 22, 227, 96,
           77, 77, 48, 49 >>

\* a message of type 0x7A, which no case of the dispatch names
MsgZ == << 122, 1, 2, 3 >>

\* a pcap record holding one MoldUDP64 packet over UDP/IPv4, with what was
\* put on the wire beside the captured bytes
MoldRecord(sec, usec, eth, session, sequence, count, bodies, blocks, pad) ==
    [sec |-> sec, usec |-> usec, udp |-> TRUE, headers |-> Len(eth) + 20 + UdpHdrLen,
     session |-> session, sequence |-> sequence, count |-> count, bodies |-> bodies,
     frame |-> [data |-> eth \o IpHdr(IPPROTO_UDP)
                             \o UdpHdr(SessionSize + SequenceSize + IndexSize + Len(blocks))
                             \o Mold(session, sequence, count, blocks),
                pad  |-> pad]]

\* a pcap record holding an IPv4 frame that carries TCP (protocol 6)
TcpRecord(sec, usec) ==
    [sec |-> sec, usec |-> usec, udp |-> FALSE, headers |-> Len(EthIPv4) + 20,
     session |-> << >>, sequence |-> << >>, count |-> 0, bodies |-> << >>,
     frame |-> [data |-> EthIPv4 \o IpHdr(6) \o Zeros(20), pad |-> 0]]

\* zero bytes after the packet of record 8: room for 65536 empty blocks
TrailerLen == 140000

BaseCapture ==
    << \* 1: one 'S' message, Sequence = 100, Count = 1
       MoldRecord(1, 5, EthIPv4, Session1, Seq100, 1, << MsgS >>, Block(MsgS), 0),
       \* 2: a 'D' message followed by a message of type 0x7A
       MoldRecord(1, 6, EthIPv4, Session1, Seq255, 2, << MsgD, MsgZ >>,
                  Block(MsgD) \o Block(MsgZ), 0),
       \* 3: VLAN tagged; an 'F' message followed by a 'D' message
       MoldRecord(1, 7, EthVlan, Session2, SeqZero, 2, << MsgF, MsgD >>,
                  Block(MsgF) \o Block(MsgD), 0),
       \* 4: heartbeat, Count = 0
       MoldRecord(2, 0, EthIPv4, Session1, Seq100, 0, << >>, << >>, 0),
       \* 5: end of session, Count = 0xFFFF, no message block
       MoldRecord(2, 1, EthIPv4, Session1, Seq100, 65535, << >>, << >>, 0),
       \* 6: not UDP
       TcpRecord(2, 2),
       \* 7: Sequence = 2^64 - 1, one 'S' message
       MoldRecord(2, 3, EthIPv4, Session1, SeqMax, 1, << MsgS >>, Block(MsgS), 0),
       \* 8: end of session, Count = 0xFFFF, followed by a zero-filled trailer
       \* of the captured record
       MoldRecord(2, 4, EthIPv4, Session1, Seq100, 65535, << >>, << >>, TrailerLen)
    >>

\* every type the dispatch names, in the order of its cases, and 0x7A
Types == << 83, 82, 72, 89, 76, 86, 87, 75, 65, 74, 70,
            69, 67, 88, 68, 85, 80, 81, 66, 73, 78, 122 >>

\* a message of type t as long as the handler of t reads, every byte 'A'
Body(t) == << t >> \o [i \in 1..Width(Handler(t), 1) |-> 65]

\* 9..30: for each of Types, a packet holding one message of that type
TypeCapture ==
    [i \in 1..Len(Types) |->
        MoldRecord(3, i, EthIPv4, Session2, Seq100, 1, << Body(Types[i]) >>,
                   Block(Body(Types[i])), 0)]

\* the record r as a capture with snapshot length caplen holds it
Snap(r, caplen) == [r EXCEPT !.frame = [data |-> SubSeq(r.frame.data, 1, caplen), pad |-> 0]]

\* an 'S' message followed by one byte its length counts and its type lacks
MsgSLong == MsgS \o << 0 >>

\* the first 5 bytes of a 'D' message, as a block of length 5
MsgDShort == SubSeq(MsgD, 1, 5)

\* 31..35: packets whose blocks are not as long as their type says, records
\* cut short by the snapshot length, and a frame that is not IPv4
MalformedCapture ==
    << \* 31: an 'S' block of length 13, then a 'D' message
       MoldRecord(4, 1, EthIPv4, Session1, Seq100, 2, << MsgSLong, MsgD >>,
                  Block(MsgSLong) \o Block(MsgD), 0),
       \* 32: a 'D' block of length 5, then an 'S' message
       MoldRecord(4, 2, EthIPv4, Session1, Seq100, 2, << MsgDShort, MsgS >>,
                  Block(MsgDShort) \o Block(MsgS), 0),
       \* 33: record 1 cut after 20 bytes, inside the IPv4 header
       Snap(BaseCapture[1], 20),
       \* 34: record 1 cut after 30 bytes, before the UDP header
       Snap(BaseCapture[1], 30),
       \* 35: an IPv6 frame (EtherType 0x86DD) of 62 bytes, in which no 0x0800
       \* lies at offset 12, 16, 20, ...
       [sec |-> 4, usec |-> 5, udp |-> FALSE, headers |-> Len(Mac) + 2 + 40,
        session |-> << >>, sequence |-> << >>, count |-> 0, bodies |-> << >>,
        frame |-> [data |-> Mac \o << 134, 221, 96 >> \o Zeros(47), pad |-> 0]]
    >>

\* bit j (from 1) of the pattern number m
Bit(m, j) == (m \div (2 ^ (j - 1))) % 2

\* The bytes of a field under pattern m.  A text field has a space at every
\* position whose bit is set and the letters 'A', 'B', ... elsewhere; the
\* 6-byte timestamp has 0xFF where the bit is set and 0x11, 0x12, ...
\* elsewhere; every other field is filled with 'A'.
PatternBytes(name, m) ==
    [j \in 1..Fields[name].size |->
        CASE Fields[name].kind = "ascii" -> IF Bit(m, j) = 1 THEN 32 ELSE 64 + j
          [] Fields[name].kind = "ts"    -> IF Bit(m, j) = 1 THEN 255 ELSE 16 + j
          [] OTHER                       -> 65]

RECURSIVE PatternFields(_, _, _)
PatternFields(names, k, m) ==
    IF k > Len(names) THEN << >>
    ELSE PatternBytes(names[k], m) \o PatternFields(names, k + 1, m)

\* a message of type t whose fields are filled by pattern m
PatternBody(t, m) == << t >> \o PatternFields(Handler(t), 1, m)

\* the patterns of a text field as wide as stock, the widest
Patterns == 2 ^ Fields["stock"].size

\* 36..291: for each pattern, a packet holding one 'F' message (timestamp,
\* stock and attribution among its fields) filled by that pattern
PatternCapture ==
    [i \in 1..Patterns |->
        MoldRecord(5, i, EthIPv4, Session1, Seq100, 1, << PatternBody(70, i - 1) >>,
                   Block(PatternBody(70, i - 1)), 0)]

\* the VLAN tagged record r with a 24-byte IPv4 header: IHL 6, one word of
\* options (NOP, NOP, NOP, end of list)
WithIpOptions(r) ==
    [r EXCEPT !.headers = @ + 4,
              !.frame.data = SubSeq(@, 1, Len(EthVlan)) \o << 70 >>
                             \o SubSeq(@, Len(EthVlan) + 2, Len(EthVlan) + 20)
                             \o << 1, 1, 1, 0 >>
                             \o SubSeq(@, Len(EthVlan) + 21, Len(@))]

\* JNX 'F' order added with attributes: timestamp 1 ns, order number 42,
\* sell, quantity 100, orderbook 1301, group "JPN ", price 500000,
\* attribution "MM01", order type 'L'
JnxMsgF == << 70, 0, 0, 0, 1, 0, 0, 0, 0, 0, 0, 0, 42, 83, 0, 0, 0, 100, 0, 0, 5, 21,
              74, 80, 78, 32, 0, 7, 161, 32, 77, 77, 48, 49, 76 >>

\* JNX 'T' timestamp seconds: 34200
JnxMsgT == << 84, 0, 0, 133, 152 >>

\* JNX 'H' trading state: timestamp 1 ns, orderbook 1301, group "JPN ", 'T'
JnxMsgH == << 72, 0, 0, 0, 1, 0, 0, 5, 21, 74, 80, 78, 32, 84 >>

\* every type the JNX dispatch names, in the order of its cases, and 0x7A
JnxTypes == << 84, 83, 76, 82, 72, 89, 65, 70, 69, 68, 85, 122 >>

\* a JNX message of type t as long as the handler of t reads, every byte 'A'
JnxBody(t) == << t >> \o [i \in 1..JnxWidth(JnxHandler(t), 1) |-> 65]

\* the packets of the JNX feed: an 'F' message; a 'T' message followed by an
\* 'H' message; and for each of JnxTypes a packet holding one message of
\* that type
JnxCapture ==
    << MoldRecord(6, 1, EthIPv4, Session1, Seq100, 1, << JnxMsgF >>, Block(JnxMsgF), 0),
       MoldRecord(6, 2, EthIPv4, Session1, Seq100, 2, << JnxMsgT, JnxMsgH >>,
                  Block(JnxMsgT) \o Block(JnxMsgH), 0) >>
    \o [i \in 1..Len(JnxTypes) |->
          MoldRecord(7, i, EthIPv4, Session2, Seq100, 1, << JnxBody(JnxTypes[i]) >>,
                     Block(JnxBody(JnxTypes[i])), 0)]

\* the last record: record 3 with IPv4 options
OptionCapture == << WithIpOptions(BaseCapture[3]) >>

Capture ==
    BaseCapture \o TypeCapture \o MalformedCapture \o PatternCapture \o JnxCapture
        \o OptionCapture

\* the records a capture of the main specification is made of
Inputs == 1..Len(BaseCapture)

\* the records a capture of the catalog specification is made of
CatalogInputs == 1..(Len(BaseCapture) + Len(TypeCapture))

\* the records a capture of the codec specification is made of: the 'S'
\* message of record 1 and every pattern
CodecInputs ==
    {1} \cup { Len(BaseCapture) + Len(TypeCapture) + Len(MalformedCapture) + i :
                 i \in 1..Patterns }

\* the records a capture of the JNX specification is made of
JnxInputs ==
    { Len(BaseCapture) + Len(TypeCapture) + Len(MalformedCapture) + Patterns + i :
        i \in 1..Len(JnxCapture) }

\* the records a capture of the driver specification is made of: an 'S'
\* message, a 'D' message before an unknown type, the VLAN tagged frames, a
\* heartbeat, a TCP frame, and the malformed records
DriverInputs ==
    {1, 2, 3, 4, 6, Len(Capture)}
        \cup { Len(BaseCapture) + Len(TypeCapture) + i : i \in 1..Len(MalformedCapture) }

\* the records a capture of the 16-bit loop specification is made of
WrapInputs == {8}

\* bytes a read outside the buffer can yield: 0x00, and 'D'
Garbage == {0, 68}

Frame == Capture[packet].frame

-----------------------------------------------------------------------------
(* converter::try_get_nasdaq_itch: the packet demuxer.                     *)

\* while (ntohs(*payload) != ETHERTYPE_IP) *payload += 4;  The scan leaves
\* the buffer when no IPv4 EtherType is in it.
\* A demuxer that takes whatever follows the MAC addresses for the EtherType.
ScanEtherTypeNone(f, g, p) == p

RECURSIVE ScanEtherType(_, _, _)
ScanEtherType(f, g, p) ==
    IF ntohs(f, g, p) = ETHERTYPE_IP \/ p >= BufLen(f) THEN p
    ELSE ScanEtherType(f, g, p + ShimLen)

Max(a, b) == IF a >= b THEN a ELSE b

\* pcap_index::increment(): data++
pcap_index_increment(data) == data + 1

\* A header walk that takes every IPv4 payload for a UDP datagram.
DemuxAnyProtocol(f, g) ==
    LET eth    == ScanEtherType(f, g, EtherAddrs)
        iphdr  == eth + 2
        ip_hl  == ByteAt(f, g, iphdr) % 16
        udp    == iphdr + ip_hl * 4
    IN  [ok |-> TRUE, payload |-> udp + UdpHdrLen,
         length |-> ntohs(f, g, udp + UdpLenOff) - UdpHdrLen,
         readEnd |-> Max(Max(eth + 2, iphdr + IpProtoOff + 1), udp + UdpLenOff + 2)]

\* The header walk of try_get_nasdaq_itch.  ok: the return value; payload,
\* length: the out parameters; readEnd: one past the highest offset read.
Demux(f, g) ==
    LET eth    == ScanEtherType(f, g, EtherAddrs)
        iphdr  == eth + 2
        ip_hl  == ByteAt(f, g, iphdr) % 16
        ip_p   == ByteAt(f, g, iphdr + IpProtoOff)
        udp    == iphdr + ip_hl * 4
    IN  IF ip_p = IPPROTO_UDP
        THEN [ok |-> TRUE, payload |-> udp + UdpHdrLen,
              length |-> ntohs(f, g, udp + UdpLenOff) - UdpHdrLen,
              readEnd |-> Max(Max(eth + 2, iphdr + IpProtoOff + 1), udp + UdpLenOff + 2)]
        ELSE [ok |-> FALSE, payload |-> -1, length |-> 0,
              readEnd |-> Max(eth + 2, iphdr + IpProtoOff + 1)]

\* A demuxer that counts a pcap record only once it has found UDP in it.
try_get_counting_udp_only(f, g, pcap_index) ==
    [d |-> Demux(f, g),
     pcap_index |-> IF Demux(f, g).ok THEN pcap_index_increment(pcap_index) ELSE pcap_index]

\* try_get_nasdaq_itch: record.pcap_index.increment() first, then the walk.
\* pcap_index: record.pcap_index on return.
try_get_nasdaq_itch(f, g, pcap_index) ==
    [d |-> Demux(f, g), pcap_index |-> pcap_index_increment(pcap_index)]

\* pcap_timestamp::set(pkthdr): seconds + microseconds, in microseconds
pcap_timestamp_set(r) == r.sec * 1000000 + r.usec

-----------------------------------------------------------------------------
(* The converter.                                                          *)

\* operator<<(parquet::StreamWriter&, const record&): the columns of a row
Row(r) ==
    [pcap_index       |-> r.pcap_index,
     pcap_timestamp   |-> r.pcap_timestamp,
     session          |-> r.session,
     message_sequence |-> r.message_sequence,
     message_index    |-> r.message_index,
     message_type     |-> r.message_type,
     opt              |-> r.opt]

\* the writer's file, of which the model keeps the last `keep` rows
Written(old, row, keep) ==
    LET all == Append(old, row)
    IN  IF Len(all) > keep THEN Tail(all) ELSE all

-----------------------------------------------------------------------------
(* The schema, the row writer and the row reader of both converters.       *)

\* record::nodes(): the name of each node, in order
Nodes ==
    << "pcap_index", "timestamp", "session",
       "message_sequence", "message_index", "message_type",
       "attribution", "auction_collar_extension", "auction_collar_reference_price",
       "authenticity", "breached_level", "buy_sell_indicator",
       "canceled_shares", "cross_price", "cross_shares",
       "cross_type", "current_reference_price", "etp_flag",
       "etp_leverage_factor", "event_code", "executed_shares",
       "execution_price", "far_price", "financial_status_indicator",
       "imbalance_direction", "imbalance_shares", "interest_flag",
       "inverse_indicator", "ipo_flag", "ipo_price",
       "ipo_quotation_release_qualifier", "ipo_quotation_release_time", "issue_classification",
       "issue_sub_type", "level_1", "level_2",
       "level_3", "locate_code", "lower_auction_collar_price",
       "luld_reference_price_tier", "market_category", "market_maker_mode",
       "market_participant_state", "match_number", "mpid",
       "near_price", "new_order_reference_number", "order_reference_number",
       "original_order_reference_number", "paired_shares", "price",
       "price_variation_indicator", "primary_market_maker", "printable",
       "reason", "reg_sho_action", "reserved",
       "round_lot_size", "round_lots_only", "shares",
       "short_sale_threshold_indicator", "stock", "stock_locate",
       "timestamp", "tracking_number", "trading_state",
       "upper_auction_collar_price" >>

\* operator<<(parquet::StreamWriter&, const record&): the members written, in order
WriterOrder ==
    << "pcap_index", "pcap_timestamp", "session",
       "message_sequence", "message_index", "message_type",
       "attribution", "auction_collar_extension", "auction_collar_reference_price",
       "authenticity", "breached_level", "buy_sell_indicator",
       "canceled_shares", "cross_price", "cross_shares",
       "cross_type", "current_reference_price", "etp_flag",
       "etp_leverage_factor", "event_code", "executed_shares",
       "execution_price", "far_price", "financial_status_indicator",
       "imbalance_direction", "imbalance_shares", "interest_flag",
       "inverse_indicator", "ipo_flag", "ipo_price",
       "ipo_quotation_release_qualifier", "ipo_quotation_release_time", "issue_classification",
       "issue_sub_type", "level_1", "level_2",
       "level_3", "locate_code", "lower_auction_collar_price",
       "luld_reference_price_tier", "market_category", "market_maker_mode",
       "market_participant_state", "match_number", "mpid",
       "near_price", "new_order_reference_number", "order_reference_number",
       "original_order_reference_number", "paired_shares", "price",
       "price_variation_indicator", "primary_market_maker", "printable",
       "reason", "reg_sho_action", "reserved",
       "round_lot_size", "round_lots_only", "shares",
       "short_sale_threshold_indicator", "stock", "stock_locate",
       "timestamp", "tracking_number", "trading_state",
       "upper_auction_collar_price" >>

\* A reader that takes stock_locate before stock.
ReaderOrderSwapped ==
    [i \in 1..Len(WriterOrder) |->
        IF WriterOrder[i] = "stock" THEN "stock_locate"
        ELSE IF WriterOrder[i] = "stock_locate" THEN "stock"
        ELSE WriterOrder[i]]

\* operator>>(parquet::StreamReader&, record&): the members read, in order
ReaderOrder ==
    << "pcap_index", "pcap_timestamp", "session",
       "message_sequence", "message_index", "message_type",
       "attribution", "auction_collar_extension", "auction_collar_reference_price",
       "authenticity", "breached_level", "buy_sell_indicator",
       "canceled_shares", "cross_price", "cross_shares",
       "cross_type", "current_reference_price", "etp_flag",
       "etp_leverage_factor", "event_code", "executed_shares",
       "execution_price", "far_price", "financial_status_indicator",
       "imbalance_direction", "imbalance_shares", "interest_flag",
       "inverse_indicator", "ipo_flag", "ipo_price",
       "ipo_quotation_release_qualifier", "ipo_quotation_release_time", "issue_classification",
       "issue_sub_type", "level_1", "level_2",
       "level_3", "locate_code", "lower_auction_collar_price",
       "luld_reference_price_tier", "market_category", "market_maker_mode",
       "market_participant_state", "match_number", "mpid",
       "near_price", "new_order_reference_number", "order_reference_number",
       "original_order_reference_number", "paired_shares", "price",
       "price_variation_indicator", "primary_market_maker", "printable",
       "reason", "reg_sho_action", "reserved",
       "round_lot_size", "round_lots_only", "shares",
       "short_sale_threshold_indicator", "stock", "stock_locate",
       "timestamp", "tracking_number", "trading_state",
       "upper_auction_collar_price" >>

\* record::nodes(): the name of each node, in order
JnxNodes ==
    << "pcap_index", "timestamp", "session",
       "message_sequence", "message_index", "message_type",
       "attribution", "buy_sell_indicator", "executed_quantity",
       "group", "lower_price_limit", "match_number",
       "new_order_number", "order_number", "order_type",
       "orderbook_code", "orderbook_id", "original_order_number",
       "price", "price_decimals", "price_start",
       "price_tick_size", "price_tick_size_table_id", "quantity",
       "round_lot_size", "short_selling_state", "system_event",
       "timestamp_nanoseconds", "timestamp_seconds", "trading_state",
       "upper_price_limit" >>

\* operator<<(parquet::StreamWriter&, const record&): the members written, in order
JnxWriterOrder ==
    << "pcap_index", "pcap_timestamp", "session",
       "message_sequence", "message_index", "message_type",
       "attribution", "buy_sell_indicator", "executed_quantity",
       "group", "lower_price_limit", "match_number",
       "new_order_number", "order_number", "order_type",
       "orderbook_code", "orderbook_id", "original_order_number",
       "price", "price_decimals", "price_start",
       "price_tick_size", "price_tick_size_table_id", "quantity",
       "round_lot_size", "short_selling_state", "system_event",
       "timestamp_nanoseconds", "timestamp_seconds", "trading_state",
       "upper_price_limit" >>

\* operator>>(parquet::StreamReader&, record&): the members read, in order
JnxReaderOrder ==
    << "pcap_index", "pcap_timestamp", "session",
       "message_sequence", "message_index", "message_type",
       "attribution", "buy_sell_indicator", "executed_quantity",
       "group", "lower_price_limit", "match_number",
       "new_order_number", "order_number", "order_type",
       "orderbook_code", "orderbook_id", "original_order_number",
       "price", "price_decimals", "price_start",
       "price_tick_size", "price_tick_size_table_id", "quantity",
       "round_lot_size", "short_selling_state", "system_event",
       "timestamp_nanoseconds", "timestamp_seconds", "trading_state",
       "upper_price_limit" >>

\* the characters of each name, as ASCII codes
Spelling ==
    [ attribution                     |-> << 97, 116, 116, 114, 105, 98, 117, 116, 105, 111,
                                             110 >>
    , auction_collar_extension        |-> << 97, 117, 99, 116, 105, 111, 110, 95, 99, 111,
                                             108, 108, 97, 114, 95, 101, 120, 116, 101, 110,
                                             115, 105, 111, 110 >>
    , auction_collar_reference_price  |-> << 97, 117, 99, 116, 105, 111, 110, 95, 99, 111,
                                             108, 108, 97, 114, 95, 114, 101, 102, 101, 114,
                                             101, 110, 99, 101, 95, 112, 114, 105, 99, 101 >>
    , authenticity                    |-> << 97, 117, 116, 104, 101, 110, 116, 105, 99, 105,
                                             116, 121 >>
    , breached_level                  |-> << 98, 114, 101, 97, 99, 104, 101, 100, 95, 108,
                                             101, 118, 101, 108 >>
    , buy_sell_indicator              |-> << 98, 117, 121, 95, 115, 101, 108, 108, 95, 105,
                                             110, 100, 105, 99, 97, 116, 111, 114 >>
    , canceled_shares                 |-> << 99, 97, 110, 99, 101, 108, 101, 100, 95, 115,
                                             104, 97, 114, 101, 115 >>
    , cross_price                     |-> << 99, 114, 111, 115, 115, 95, 112, 114, 105, 99,
                                             101 >>
    , cross_shares                    |-> << 99, 114, 111, 115, 115, 95, 115, 104, 97, 114,
                                             101, 115 >>
    , cross_type                      |-> << 99, 114, 111, 115, 115, 95, 116, 121, 112, 101 >>
    , current_reference_price         |-> << 99, 117, 114, 114, 101, 110, 116, 95, 114, 101,
                                             102, 101, 114, 101, 110, 99, 101, 95, 112, 114,
                                             105, 99, 101 >>
    , etp_flag                        |-> << 101, 116, 112, 95, 102, 108, 97, 103 >>
    , etp_leverage_factor             |-> << 101, 116, 112, 95, 108, 101, 118, 101, 114, 97,
                                             103, 101, 95, 102, 97, 99, 116, 111, 114 >>
    , event_code                      |-> << 101, 118, 101, 110, 116, 95, 99, 111, 100, 101 >>
    , executed_quantity               |-> << 101, 120, 101, 99, 117, 116, 101, 100, 95, 113,
                                             117, 97, 110, 116, 105, 116, 121 >>
    , executed_shares                 |-> << 101, 120, 101, 99, 117, 116, 101, 100, 95, 115,
                                             104, 97, 114, 101, 115 >>
    , execution_price                 |-> << 101, 120, 101, 99, 117, 116, 105, 111, 110, 95,
                                             112, 114, 105, 99, 101 >>
    , far_price                       |-> << 102, 97, 114, 95, 112, 114, 105, 99, 101 >>
    , financial_status_indicator      |-> << 102, 105, 110, 97, 110, 99, 105, 97, 108, 95,
                                             115, 116, 97, 116, 117, 115, 95, 105, 110, 100,
                                             105, 99, 97, 116, 111, 114 >>
    , group                           |-> << 103, 114, 111, 117, 112 >>
    , imbalance_direction             |-> << 105, 109, 98, 97, 108, 97, 110, 99, 101, 95,
                                             100, 105, 114, 101, 99, 116, 105, 111, 110 >>
    , imbalance_shares                |-> << 105, 109, 98, 97, 108, 97, 110, 99, 101, 95,
                                             115, 104, 97, 114, 101, 115 >>
    , interest_flag                   |-> << 105, 110, 116, 101, 114, 101, 115, 116, 95, 102,
                                             108, 97, 103 >>
    , inverse_indicator               |-> << 105, 110, 118, 101, 114, 115, 101, 95, 105, 110,
                                             100, 105, 99, 97, 116, 111, 114 >>
    , ipo_flag                        |-> << 105, 112, 111, 95, 102, 108, 97, 103 >>
    , ipo_price                       |-> << 105, 112, 111, 95, 112, 114, 105, 99, 101 >>
    , ipo_quotation_release_qualifier |-> << 105, 112, 111, 95, 113, 117, 111, 116, 97, 116,
                                             105, 111, 110, 95, 114, 101, 108, 101, 97, 115,
                                             101, 95, 113, 117, 97, 108, 105, 102, 105, 101,
                                             114 >>
    , ipo_quotation_release_time      |-> << 105, 112, 111, 95, 113, 117, 111, 116, 97, 116,
                                             105, 111, 110, 95, 114, 101, 108, 101, 97, 115,
                                             101, 95, 116, 105, 109, 101 >>
    , issue_classification            |-> << 105, 115, 115, 117, 101, 95, 99, 108, 97, 115,
                                             115, 105, 102, 105, 99, 97, 116, 105, 111, 110 >>
    , issue_sub_type                  |-> << 105, 115, 115, 117, 101, 95, 115, 117, 98, 95,
                                             116, 121, 112, 101 >>
    , level_1                         |-> << 108, 101, 118, 101, 108, 95, 49 >>
    , level_2                         |-> << 108, 101, 118, 101, 108, 95, 50 >>
    , level_3                         |-> << 108, 101, 118, 101, 108, 95, 51 >>
    , locate_code                     |-> << 108, 111, 99, 97, 116, 101, 95, 99, 111, 100,
                                             101 >>
    , lower_auction_collar_price      |-> << 108, 111, 119, 101, 114, 95, 97, 117, 99, 116,
                                             105, 111, 110, 95, 99, 111, 108, 108, 97, 114,
                                             95, 112, 114, 105, 99, 101 >>
    , lower_price_limit               |-> << 108, 111, 119, 101, 114, 95, 112, 114, 105, 99,
                                             101, 95, 108, 105, 109, 105, 116 >>
    , luld_reference_price_tier       |-> << 108, 117, 108, 100, 95, 114, 101, 102, 101, 114,
                                             101, 110, 99, 101, 95, 112, 114, 105, 99, 101,
                                             95, 116, 105, 101, 114 >>
    , market_category                 |-> << 109, 97, 114, 107, 101, 116, 95, 99, 97, 116,
                                             101, 103, 111, 114, 121 >>
    , market_maker_mode               |-> << 109, 97, 114, 107, 101, 116, 95, 109, 97, 107,
                                             101, 114, 95, 109, 111, 100, 101 >>
    , market_participant_state        |-> << 109, 97, 114, 107, 101, 116, 95, 112, 97, 114,
                                             116, 105, 99, 105, 112, 97, 110, 116, 95, 115,
                                             116, 97, 116, 101 >>
    , match_number                    |-> << 109, 97, 116, 99, 104, 95, 110, 117, 109, 98,
                                             101, 114 >>
    , message_index                   |-> << 109, 101, 115, 115, 97, 103, 101, 95, 105, 110,
                                             100, 101, 120 >>
    , message_length                  |-> << 109, 101, 115, 115, 97, 103, 101, 95, 108, 101,
                                             110, 103, 116, 104 >>
    , message_sequence                |-> << 109, 101, 115, 115, 97, 103, 101, 95, 115, 101,
                                             113, 117, 101, 110, 99, 101 >>
    , message_type                    |-> << 109, 101, 115, 115, 97, 103, 101, 95, 116, 121,
                                             112, 101 >>
    , mpid                            |-> << 109, 112, 105, 100 >>
    , near_price                      |-> << 110, 101, 97, 114, 95, 112, 114, 105, 99, 101 >>
    , new_order_number                |-> << 110, 101, 119, 95, 111, 114, 100, 101, 114, 95,
                                             110, 117, 109, 98, 101, 114 >>
    , new_order_reference_number      |-> << 110, 101, 119, 95, 111, 114, 100, 101, 114, 95,
                                             114, 101, 102, 101, 114, 101, 110, 99, 101, 95,
                                             110, 117, 109, 98, 101, 114 >>
    , order_number                    |-> << 111, 114, 100, 101, 114, 95, 110, 117, 109, 98,
                                             101, 114 >>
    , order_reference_number          |-> << 111, 114, 100, 101, 114, 95, 114, 101, 102, 101,
                                             114, 101, 110, 99, 101, 95, 110, 117, 109, 98,
                                             101, 114 >>
    , order_type                      |-> << 111, 114, 100, 101, 114, 95, 116, 121, 112, 101 >>
    , orderbook_code                  |-> << 111, 114, 100, 101, 114, 98, 111, 111, 107, 95,
                                             99, 111, 100, 101 >>
    , orderbook_id                    |-> << 111, 114, 100, 101, 114, 98, 111, 111, 107, 95,
                                             105, 100 >>
    , original_order_number           |-> << 111, 114, 105, 103, 105, 110, 97, 108, 95, 111,
                                             114, 100, 101, 114, 95, 110, 117, 109, 98, 101,
                                             114 >>
    , original_order_reference_number |-> << 111, 114, 105, 103, 105, 110, 97, 108, 95, 111,
                                             114, 100, 101, 114, 95, 114, 101, 102, 101, 114,
                                             101, 110, 99, 101, 95, 110, 117, 109, 98, 101,
                                             114 >>
    , paired_shares                   |-> << 112, 97, 105, 114, 101, 100, 95, 115, 104, 97,
                                             114, 101, 115 >>
    , pcap_index                      |-> << 112, 99, 97, 112, 95, 105, 110, 100, 101, 120 >>
    , pcap_timestamp                  |-> << 112, 99, 97, 112, 95, 116, 105, 109, 101, 115,
                                             116, 97, 109, 112 >>
    , price                           |-> << 112, 114, 105, 99, 101 >>
    , price_decimals                  |-> << 112, 114, 105, 99, 101, 95, 100, 101, 99, 105,
                                             109, 97, 108, 115 >>
    , price_start                     |-> << 112, 114, 105, 99, 101, 95, 115, 116, 97, 114,
                                             116 >>
    , price_tick_size                 |-> << 112, 114, 105, 99, 101, 95, 116, 105, 99, 107,
                                             95, 115, 105, 122, 101 >>
    , price_tick_size_table_id        |-> << 112, 114, 105, 99, 101, 95, 116, 105, 99, 107,
                                             95, 115, 105, 122, 101, 95, 116, 97, 98, 108,
                                             101, 95, 105, 100 >>
    , price_variation_indicator       |-> << 112, 114, 105, 99, 101, 95, 118, 97, 114, 105,
                                             97, 116, 105, 111, 110, 95, 105, 110, 100, 105,
                                             99, 97, 116, 111, 114 >>
    , primary_market_maker            |-> << 112, 114, 105, 109, 97, 114, 121, 95, 109, 97,
                                             114, 107, 101, 116, 95, 109, 97, 107, 101, 114 >>
    , printable                       |-> << 112, 114, 105, 110, 116, 97, 98, 108, 101 >>
    , quantity                        |-> << 113, 117, 97, 110, 116, 105, 116, 121 >>
    , reason                          |-> << 114, 101, 97, 115, 111, 110 >>
    , reg_sho_action                  |-> << 114, 101, 103, 95, 115, 104, 111, 95, 97, 99,
                                             116, 105, 111, 110 >>
    , reserved                        |-> << 114, 101, 115, 101, 114, 118, 101, 100 >>
    , round_lot_size                  |-> << 114, 111, 117, 110, 100, 95, 108, 111, 116, 95,
                                             115, 105, 122, 101 >>
    , round_lots_only                 |-> << 114, 111, 117, 110, 100, 95, 108, 111, 116, 115,
                                             95, 111, 110, 108, 121 >>
    , session                         |-> << 115, 101, 115, 115, 105, 111, 110 >>
    , shares                          |-> << 115, 104, 97, 114, 101, 115 >>
    , short_sale_threshold_indicator  |-> << 115, 104, 111, 114, 116, 95, 115, 97, 108, 101,
                                             95, 116, 104, 114, 101, 115, 104, 111, 108, 100,
                                             95, 105, 110, 100, 105, 99, 97, 116, 111, 114 >>
    , short_selling_state             |-> << 115, 104, 111, 114, 116, 95, 115, 101, 108, 108,
                                             105, 110, 103, 95, 115, 116, 97, 116, 101 >>
    , stock                           |-> << 115, 116, 111, 99, 107 >>
    , stock_locate                    |-> << 115, 116, 111, 99, 107, 95, 108, 111, 99, 97,
                                             116, 101 >>
    , system_event                    |-> << 115, 121, 115, 116, 101, 109, 95, 101, 118, 101,
                                             110, 116 >>
    , timestamp                       |-> << 116, 105, 109, 101, 115, 116, 97, 109, 112 >>
    , timestamp_nanoseconds           |-> << 116, 105, 109, 101, 115, 116, 97, 109, 112, 95,
                                             110, 97, 110, 111, 115, 101, 99, 111, 110, 100,
                                             115 >>
    , timestamp_seconds               |-> << 116, 105, 109, 101, 115, 116, 97, 109, 112, 95,
                                             115, 101, 99, 111, 110, 100, 115 >>
    , tracking_number                 |-> << 116, 114, 97, 99, 107, 105, 110, 103, 95, 110,
                                             117, 109, 98, 101, 114 >>
    , trading_state                   |-> << 116, 114, 97, 100, 105, 110, 103, 95, 115, 116,
                                             97, 116, 101 >>
    , upper_auction_collar_price      |-> << 117, 112, 112, 101, 114, 95, 97, 117, 99, 116,
                                             105, 111, 110, 95, 99, 111, 108, 108, 97, 114,
                                             95, 112, 114, 105, 99, 101 >>
    , upper_price_limit               |-> << 117, 112, 112, 101, 114, 95, 112, 114, 105, 99,
                                             101, 95, 108, 105, 109, 105, 116 >>
    ]

\* the members of record that are required columns
FramingMembers ==
    { "pcap_index", "pcap_timestamp", "session", "message_sequence", "message_index",
      "message_type" }

\* what the stream writer puts in a column for a member: the value of a
\* required member and of an engaged optional, nothing for a disengaged one
ColumnValue(row, member) ==
    IF member \in FramingMembers THEN << row[member] >>
    ELSE IF member \in DOMAIN row.opt THEN << row.opt[member] >>
    ELSE << >>

\* operator<<(parquet::StreamWriter&, const record&): the columns of a row of
\* the file, by position
FileRow(order, row) == [i \in 1..Len(order) |-> ColumnValue(row, order[i])]

\* operator>>(parquet::StreamReader&, record&): the record read from the
\* columns of a row of the file, member order[i] from column i
ReadRow(order, cols) ==
    LET at(m) == cols[CHOOSE i \in 1..Len(order) : order[i] = m]
        engaged == { order[i] : i \in { j \in 1..Len(order) :
                                           /\ order[j] \notin FramingMembers
                                           /\ Len(cols[j]) > 0 } }
    IN  [pcap_index       |-> at("pcap_index")[1],
         pcap_timestamp   |-> at("pcap_timestamp")[1],
         session          |-> at("session")[1],
         message_sequence |-> at("message_sequence")[1],
         message_index    |-> at("message_index")[1],
         message_type     |-> at("message_type")[1],
         opt              |-> [m \in engaged |-> at(m)[1]]]

\* read_parquet: while (!reader.eof()) { reader >> record; ... } over the
\* file the writer of the same program wrote
ReadFile(feed, file) ==
    [i \in 1..Len(file) |->
        IF feed = "jnx"
        THEN ReadRow(JnxReaderOrder, FileRow(JnxWriterOrder, file[i]))
        ELSE ReadRow(ReaderOrder, FileRow(WriterOrder, file[i]))]

\* record{}: every member value-initialised
NewRecord ==
    [pcap_index       |-> 0,
     pcap_timestamp   |-> 0,
     session          |-> << >>,
     message_sequence |-> Zeros(SequenceSize),
     message_index    |-> 0,
     message_count    |-> 0,
     message_length   |-> 0,
     message_type     |-> 0,
     opt              |-> [x \in {} |-> << >>]]

\* The state after main has parsed two arguments, write_parquet has opened
\* the capture and converter::converter has run.
Init ==
    /\ pc = "idle"
    /\ packet = 0
    /\ current = 0
    /\ record = NewRecord
    /\ rows = << >>
    /\ nrows = 0
    /\ fed = << >>
    /\ yielded = << >>
    /\ pcap_open = TRUE
    /\ flushed = 0
    /\ length = 0
    /\ writer_open = TRUE
    /\ returned = << >>
    /\ main = [argc |-> 3, pcap_file |-> "argv[1]", parquet_file |-> "argv[2]",
               usage |-> FALSE, calls |-> << "write_parquet" >>, status |-> "running",
               opened |-> TRUE, feed |-> "nasdaq", read |-> << >>]

\* A session::set that drops the padding of the session id.
session_set_trimmed(f, g, off) == Bytes(f, g, off, SpaceIndex(f, g, off, SessionSize, 0))

\* session::set: data.assign(*current, size)
session_set(f, g, off) == Bytes(f, g, off, SessionSize)

\* A message_length::set that leaves the cursor where the handler of the
\* message's type stops reading.
message_length_set_by_type(f, g, cur) ==
    LET data == U16(htobe(Load(f, g, cur, LengthSize)))
        type == ByteAt(f, g, cur + LengthSize)
    IN  [data    |-> data,
         message |-> cur + LengthSize,
         current |-> cur + LengthSize + TypeSize + Width(Handler(type), 1)]

\* message_length::set(current, message): data = the 16-bit length;
\* *current += size; *message = *current; *current += data
message_length_set(f, g, cur) ==
    LET data == U16(htobe(Load(f, g, cur, LengthSize)))
    IN  [data    |-> data,
         message |-> cur + LengthSize,
         current |-> cur + LengthSize + data]

\* An increment whose test reads the counter before it is incremented.
message_index_post_increment(data, count) ==
    [data |-> (data + 1) % UInt16, ok |-> data <= count]

\* message_index::increment(): data++ on a std::uint16_t; return data <= count
message_index_increment(data, count) ==
    [data |-> (data + 1) % UInt16, ok |-> (data + 1) % UInt16 <= count]

\* message_sequence::increment(): data++ on a std::uint64_t
message_sequence_increment(data) == Inc64(data)

\* pcap_next_ex returned 1: converter::process(header, packet) up to the
\* first test of its while loop.
ProcessRecordOf(inputs, records) ==
    /\ pc = "idle"
    /\ Len(fed) < records
    /\ \E k \in inputs, g \in Garbage :
         LET r       == Capture[k]
             f       == r.frame
             got     == try_get_nasdaq_itch(f, g, record.pcap_index)
             d       == got.d
             hdr     == d.payload
             readEnd == IF d.ok THEN Max(d.readEnd, hdr + SessionSize + SequenceSize + IndexSize)
                        ELSE d.readEnd
             counted == [record EXCEPT !.pcap_index = got.pcap_index]
         IN  \E crash \in (IF readEnd > BufLen(f) THEN BOOLEAN ELSE {FALSE}) :
               /\ fed' = Append(fed, k)
               /\ yielded' = Append(yielded, 0)
               /\ returned' = Append(returned, 1)
               /\ length' = IF crash THEN length ELSE d.length
               /\ IF crash
                  THEN /\ pc' = "crashed"
                       /\ packet' = k
                       /\ record' = counted
                       /\ current' = current
                  ELSE IF d.ok
                  THEN /\ pc' = "messages"
                       /\ packet' = k
                       /\ record' =
                            [counted EXCEPT
                               !.pcap_timestamp   = pcap_timestamp_set(r),
                               !.session          = session_set(f, g, hdr),
                               !.message_sequence =
                                   htobe(Load(f, g, hdr + SessionSize, SequenceSize)),
                               !.message_count    =
                                   U16(htobe(Load(f, g, hdr + SessionSize + SequenceSize,
                                                  IndexSize))),
                               !.message_index    = 0]
                       /\ current' = hdr + SessionSize + SequenceSize + IndexSize
                  ELSE /\ pc' = "idle"
                       /\ packet' = 0
                       /\ record' = counted
                       /\ current' = current
    /\ UNCHANGED << rows, nrows, pcap_open, flushed, writer_open, main >>

\* One iteration of  while (record.message_index.increment()) { ... }  whose
\* test succeeds: reset, length, type, sequence, dispatch, write.
ProcessMessageOf(keep, cap) ==
    /\ pc = "messages"
    /\ nrows < cap
    /\ message_index_increment(record.message_index, record.message_count).ok
    /\ \E g \in Garbage : \E block \in {message_length_set(Frame, g, current)} :
         LET f       == Frame
             message_length == block.data
             message == block.message
             type    == ByteAt(f, g, message)
             jnx     == main.feed = "jnx"
             readEnd == message + TypeSize
                        + (IF jnx THEN JnxWidth(JnxHandler(type), 1)
                                  ELSE Width(Handler(type), 1))
             next    == [record EXCEPT
                           !.message_index    =
                               message_index_increment(@, record.message_count).data,
                           !.message_length   = message_length,
                           !.message_type     = type,
                           !.message_sequence = message_sequence_increment(@),
                           !.opt              =
                               IF jnx
                               THEN JnxProcess(f, g, message + TypeSize, type, JnxReset(@))
                               ELSE process(f, g, message + TypeSize, type, Reset(@))]
         IN  \E crash \in (IF readEnd > BufLen(f) THEN BOOLEAN ELSE {FALSE}) :
               IF crash
               THEN /\ pc' = "crashed"
                    /\ UNCHANGED << current, record, rows, nrows, yielded >>
               ELSE /\ pc' = "messages"
                    /\ current' = block.current
                    /\ record' = next
                    /\ rows' = Written(rows, Row(next), keep)
                    /\ nrows' = nrows + 1
                    /\ yielded' = [yielded EXCEPT ![Len(fed)] = @ + 1]
    /\ UNCHANGED << packet, fed, pcap_open, flushed, length, writer_open, returned, main >>

\* The test of the while loop fails: converter::process returns.
EndOfPacket ==
    /\ pc = "messages"
    /\ ~ message_index_increment(record.message_index, record.message_count).ok
    /\ pc' = "idle"
    /\ packet' = 0
    /\ record' = [record EXCEPT
                    !.message_index = message_index_increment(@, record.message_count).data]
    /\ UNCHANGED << current, rows, nrows, fed, yielded, pcap_open, flushed,
                    length, writer_open, returned, main >>

\* what pcap_next_ex returns when it does not return 1: 0 (timeout), -1
\* (error), -2 (end of file), and 2 for the values of the default label
NonSuccess == {0, -1, -2, 2}

\* pcap_next_ex returned 0, -1, -2 or anything else but 1:
\* converter.close(); pcap_close(pcap); return.  The converter, a local of
\* write_parquet, is destroyed by the return.
EndOfCapture ==
    /\ pc = "idle"
    /\ \E status \in NonSuccess : returned' = Append(returned, status)
    /\ pc' = "done"
    /\ flushed' = nrows
    /\ pcap_open' = FALSE
    /\ writer_open' = FALSE
    /\ UNCHANGED << packet, current, record, rows, nrows, fed, yielded, length, main >>

ProcessRecord == ProcessRecordOf(Inputs, MaxRecords)

ProcessMessage == ProcessMessageOf(MaxRows, MaxRows)

Next == ProcessRecord \/ ProcessMessage \/ EndOfPacket \/ EndOfCapture

Spec == Init /\ [][Next]_vars

\* The 16-bit message loop followed to its wrap-around: a capture of records
\* with Count = 0xFFFF, of whose rows the last WrapKeep are kept.
WrapRecord == ProcessRecordOf(WrapInputs, MaxRecords)

WrapMessage == ProcessMessageOf(WrapKeep, WrapRows)

NextWrap == WrapRecord \/ WrapMessage

SpecWrap == Init /\ [][NextWrap]_vars

\* Every message type after every other: captures of CatalogRecords records
\* drawn from all of Capture.
CatalogRecord == ProcessRecordOf(CatalogInputs, CatalogRecords)

NextCatalog == CatalogRecord \/ ProcessMessage \/ EndOfPacket \/ EndOfCapture

SpecCatalog == Init /\ [][NextCatalog]_vars

\* The field codecs over every pattern of spaces and of set bytes: captures
\* of CodecRecords records drawn from CodecInputs.
CodecRecord == ProcessRecordOf(CodecInputs, CodecRecords)

NextCodec == CodecRecord \/ ProcessMessage \/ EndOfPacket

SpecCodec == Init /\ [][NextCodec]_vars

\* The JNX converter: the state after its main has parsed two arguments,
\* write_parquet has opened the capture and converter::converter has run.
InitJnx ==
    /\ pc = "idle"
    /\ packet = 0
    /\ current = 0
    /\ record = NewRecord
    /\ rows = << >>
    /\ nrows = 0
    /\ fed = << >>
    /\ yielded = << >>
    /\ pcap_open = TRUE
    /\ flushed = 0
    /\ length = 0
    /\ writer_open = TRUE
    /\ returned = << >>
    /\ main = [argc |-> 3, pcap_file |-> "argv[1]", parquet_file |-> "argv[2]",
               usage |-> FALSE, calls |-> << "write_parquet" >>, status |-> "running",
               opened |-> TRUE, feed |-> "jnx", read |-> << >>]

JnxRecord == ProcessRecordOf(JnxInputs, JnxRecords)

NextJnx == JnxRecord \/ ProcessMessage \/ EndOfPacket \/ EndOfCapture

SpecJnx == InitJnx /\ [][NextJnx]_vars

-----------------------------------------------------------------------------
(* The driver statement by statement: main, write_parquet, read_parquet.   *)

\* the start of main: options holds its defaults
InitMain ==
    /\ pc = "main"
    /\ packet = 0
    /\ current = 0
    /\ record = NewRecord
    /\ rows = << >>
    /\ nrows = 0
    /\ fed = << >>
    /\ yielded = << >>
    /\ pcap_open = FALSE
    /\ flushed = 0
    /\ length = 0
    /\ writer_open = FALSE
    /\ returned = << >>
    /\ main \in { [argc |-> a, pcap_file |-> "itch.pcap", parquet_file |-> "itch.parquet",
                   usage |-> FALSE, calls |-> << >>, status |-> "running",
                   opened |-> FALSE, feed |-> feed, read |-> << >>] :
                  a \in 1..MaxArgc, feed \in {"nasdaq", "jnx"} }

\* A main that takes nothing but two arguments.
MainTwoArguments ==
    /\ pc = "main"
    /\ IF main.argc = 3
       THEN /\ main' = [main EXCEPT !.pcap_file = "argv[1]", !.parquet_file = "argv[2]",
                                     !.calls = Append(@, "write_parquet")]
            /\ pc' = "write_parquet"
       ELSE /\ main' = [main EXCEPT !.usage = TRUE, !.status = "-1"]
            /\ pc' = "exited"
    /\ UNCHANGED << packet, current, record, rows, nrows, fed, yielded, pcap_open,
                    flushed, length, writer_open, returned >>

\* main up to its call of write_parquet, or to its return -1
Main ==
    /\ pc = "main"
    /\ IF main.argc = 3
       THEN /\ main' = [main EXCEPT !.pcap_file = "argv[1]", !.parquet_file = "argv[2]",
                                     !.calls = Append(@, "write_parquet")]
            /\ pc' = "write_parquet"
       ELSE IF main.argc = 2
       THEN /\ main' = [main EXCEPT !.pcap_file = "argv[1]",
                                     !.calls = Append(@, "write_parquet")]
            /\ pc' = "write_parquet"
       ELSE /\ main' = [main EXCEPT !.usage = TRUE, !.status = "-1"]
            /\ pc' = "exited"
    /\ UNCHANGED << packet, current, record, rows, nrows, fed, yielded, pcap_open,
                    flushed, length, writer_open, returned >>

\* pcap_open_offline, and the throw when it returns nullptr
OpenPcap ==
    /\ pc = "write_parquet"
    /\ \E ok \in BOOLEAN :
         IF ok
         THEN pcap_open' = TRUE /\ pc' = "construct"
              /\ main' = [main EXCEPT !.opened = TRUE]
         ELSE pcap_open' = FALSE /\ pc' = "threw"
              /\ main' = [main EXCEPT !.status = "terminated"]
    /\ UNCHANGED << packet, current, record, rows, nrows, fed, yielded,
                    flushed, length, writer_open, returned >>

\* converter converter(options): the output file is opened or
\* PARQUET_ASSIGN_OR_THROW throws out of write_parquet
Construct ==
    /\ pc = "construct"
    /\ \E ok \in BOOLEAN :
         IF ok
         THEN writer_open' = TRUE /\ pc' = "idle" /\ main' = main
         ELSE writer_open' = FALSE /\ pc' = "threw"
              /\ main' = [main EXCEPT !.status = "terminated"]
    /\ record' = NewRecord
    /\ UNCHANGED << packet, current, rows, nrows, fed, yielded, pcap_open,
                    flushed, length, returned >>

\* writer << record throws: the exception leaves converter::process and
\* write_parquet, nobody catches it, and whether the stack is unwound (the
\* converter destroyed) before std::terminate is up to the implementation.
WriterThrow ==
    /\ pc = "messages"
    /\ message_index_increment(record.message_index, record.message_count).ok
    /\ pc' = "threw"
    /\ \E unwound \in BOOLEAN : writer_open' = ~ unwound
    /\ main' = [main EXCEPT !.status = "terminated"]
    /\ UNCHANGED << packet, current, record, rows, nrows, fed, yielded, pcap_open,
                    flushed, length, returned >>

\* A loop that asks pcap_next_ex again after a timeout.
ConverterCloseUnlessTimeout ==
    /\ pc = "idle"
    /\ \E status \in NonSuccess :
         /\ returned' = Append(returned, status)
         /\ IF status = 0
            THEN flushed' = flushed /\ pc' = "idle"
            ELSE flushed' = nrows /\ pc' = "closing"
    /\ UNCHANGED << packet, current, record, rows, nrows, fed, yielded, pcap_open,
                    length, writer_open, main >>

\* pcap_next_ex returned something else than 1: converter.close()
ConverterClose ==
    /\ pc = "idle"
    /\ \E status \in NonSuccess : returned' = Append(returned, status)
    /\ flushed' = nrows
    /\ pc' = "closing"
    /\ UNCHANGED << packet, current, record, rows, nrows, fed, yielded, pcap_open,
                    length, writer_open, main >>

\* pcap_close(pcap)
PcapClose ==
    /\ pc = "closing"
    /\ pcap_open' = FALSE
    /\ pc' = "closed"
    /\ UNCHANGED << packet, current, record, rows, nrows, fed, yielded,
                    flushed, length, writer_open, returned, main >>

\* return: the converter, and with it the writer, is destroyed
Return ==
    /\ pc = "closed"
    /\ writer_open' = FALSE
    /\ pc' = "done"
    /\ UNCHANGED << packet, current, record, rows, nrows, fed, yielded, pcap_open,
                    flushed, length, returned, main >>

\* read_parquet(options.parquet_file); return 0.  Opening the file written
\* can throw.
ReadParquet ==
    /\ pc = "done"
    /\ \E ok \in BOOLEAN :
         IF ok
         THEN /\ pc' = "exited"
              /\ main' = [main EXCEPT !.calls = Append(@, "read_parquet"), !.status = "0",
                                       !.read = ReadFile(main.feed, rows)]
         ELSE /\ pc' = "threw"
              /\ main' = [main EXCEPT !.calls = Append(@, "read_parquet"),
                                       !.status = "terminated"]
    /\ UNCHANGED << packet, current, record, rows, nrows, fed, yielded, pcap_open,
                    flushed, length, writer_open, returned >>

DriverRecord == ProcessRecordOf(DriverInputs, DriverRecords)

NextDriver ==
    \/ Main \/ OpenPcap \/ Construct
    \/ DriverRecord \/ ProcessMessage \/ WriterThrow \/ EndOfPacket
    \/ ConverterClose \/ PcapClose \/ Return
    \/ ReadParquet

SpecDriver == InitMain /\ [][NextDriver]_vars

-----------------------------------------------------------------------------
(* Properties.                                                             *)

\* the k-th pcap record has been processed to the end of converter::process
Completed(k) ==
    k < Len(fed) \/ (k = Len(fed) /\ pc \notin {"messages", "crashed", "threw"})

\* a record whose capture ends before its Ethernet, IP and UDP headers do
Truncated(r) == BufLen(r.frame) < r.headers

\* a UDP record, captured whole, whose packet holds as many message blocks
\* as its Count says
WellFormed(r) == r.udp /\ ~ Truncated(r) /\ r.count = Len(r.bodies)

\* the record of Capture a row was decoded from
RowInput(row) == Capture[fed[row.pcap_index]]

FromWellFormed(row) ==
    row.pcap_index \in 1..Len(fed) /\ WellFormed(RowInput(row))

HandlerFields(t) == { Handler(t)[k] : k \in 1..Len(Handler(t)) }

RECURSIVE AddN(_, _)
AddN(v, n) == IF n = 0 THEN v ELSE AddN(Inc64(v), n - 1)

\* (pcap_index, message_index) of a is before that of b
Before(a, b) ==
    \/ a.pcap_index < b.pcap_index
    \/ a.pcap_index = b.pcap_index /\ a.message_index < b.message_index

\* C1: in every row whose message_type is a catalog type, the optional
\* fields that are present are exactly the fields the handler of that type
\* sets, whatever records and messages came before.
TheoremC1 ==
    \A i \in 1..Len(rows) :
        rows[i].message_type \in Catalog
            => DOMAIN rows[i].opt = HandlerFields(rows[i].message_type)

\* C1: a 'D' row written right after an 'F' row; attribution, set by 'F',
\* is absent from the 'D' row.
WitnessC1 ==
    \E i \in 1..(Len(rows) - 1) :
        /\ rows[i].message_type = 70
        /\ rows[i + 1].message_type = 68
        /\ "attribution" \in DOMAIN rows[i].opt
        /\ "attribution" \notin DOMAIN rows[i + 1].opt
        /\ DOMAIN rows[i + 1].opt = HandlerFields(68)

\* C2: a message block whose type is not in the catalog produces no row:
\* a processed packet has written one row per block of a catalog type (one
\* row for a 'D' message followed by a message of type 0x7A).
ClaimC2 ==
    \A k \in 1..Len(fed) :
        (WellFormed(Capture[fed[k]]) /\ Completed(k))
            => yielded[k] = Cardinality({ j \in 1..Len(Capture[fed[k]].bodies) :
                                            Capture[fed[k]].bodies[j][1] \in Catalog })

\* C3: the row of the i-th message block of a packet whose header carries
\* Sequence = s has message_sequence = s + i - 1.
ClaimC3 ==
    \A i \in 1..Len(rows) :
        FromWellFormed(rows[i])
            => rows[i].message_sequence
                 = AddN(RowInput(rows[i]).sequence, rows[i].message_index - 1)

\* C4: the message_index values of the rows of a pcap record are, in the
\* order written, 1, 2, ..., Count without gap or repeat.
ClaimC4 ==
    /\ \A i \in 1..Len(rows) :
         IF i > 1 /\ rows[i - 1].pcap_index = rows[i].pcap_index
         THEN rows[i].message_index = rows[i - 1].message_index + 1
         ELSE (i = 1 /\ nrows > Len(rows)) \/ rows[i].message_index = 1
    /\ \A k \in 1..Len(fed) :
         (Completed(k) /\ yielded[k] > 0) => yielded[k] = Capture[fed[k]].count

\* C5: pcap_index starts at 0 and counts the pcap records handed to
\* converter::process, one for each, whether or not UDP was found in the
\* record and whether or not a row was written.
TheoremC5 == record.pcap_index = Len(fed)

\* C5: a record without UDP and a packet without message have been
\* processed, no row was written, and pcap_index is 2.
WitnessC5 ==
    /\ Len(fed) = 2
    /\ ~ Capture[fed[1]].udp
    /\ Capture[fed[2]].udp /\ Capture[fed[2]].count = 0
    /\ pc = "idle"
    /\ nrows = 0
    /\ record.pcap_index = 2

\* C6 as stated: pcap_index is non-decreasing over the rows of the file and
\* consecutive rows with different pcap_index differ by exactly 1.
ClaimC6 ==
    \A i \in 1..(Len(rows) - 1) :
        /\ rows[i].pcap_index <= rows[i + 1].pcap_index
        /\ rows[i].pcap_index # rows[i + 1].pcap_index
               => rows[i + 1].pcap_index = rows[i].pcap_index + 1

\* C6 as amended: pcap_index is non-decreasing over the rows of the file,
\* every row carries the ordinal of the pcap record it was decoded from, and
\* consecutive rows with different pcap_index differ by exactly 1 plus the
\* number of pcap records processed between them that wrote no row.
TheoremC6 ==
    /\ \A i \in 1..Len(rows) :
         /\ rows[i].pcap_index \in 1..Len(fed)
         /\ yielded[rows[i].pcap_index] > 0
    /\ \A i \in 1..(Len(rows) - 1) :
         /\ rows[i].pcap_index <= rows[i + 1].pcap_index
         /\ rows[i].pcap_index # rows[i + 1].pcap_index
               => rows[i + 1].pcap_index
                    = rows[i].pcap_index + 1
                      + Cardinality({ k \in 1..Len(fed) :
                                        /\ rows[i].pcap_index < k
                                        /\ k < rows[i + 1].pcap_index
                                        /\ yielded[k] = 0 })

\* C6: two consecutive rows whose pcap_index differ by 2, a record that
\* wrote no row lying between their records.
WitnessC6 ==
    \E i \in 1..(Len(rows) - 1) :
        /\ rows[i + 1].pcap_index = rows[i].pcap_index + 2
        /\ yielded[rows[i].pcap_index + 1] = 0

\* C7: in every row the framing columns are defined and pcap_index,
\* message_sequence and message_index are strictly greater than zero.
ClaimC7 ==
    \A i \in 1..Len(rows) :
        /\ Len(rows[i].session) = SessionSize
        /\ rows[i].message_type \in 0..255
        /\ rows[i].pcap_timestamp >= 0
        /\ rows[i].pcap_index > 0
        /\ rows[i].message_sequence # Zeros(SequenceSize)
        /\ rows[i].message_index > 0

\* C8: a pcap record whose MoldUDP64 header has Count = 0 writes no row, and
\* pcap_index is advanced for it as for any other record.
TheoremC8 ==
    \A k \in 1..Len(fed) :
        (Capture[fed[k]].udp /\ Capture[fed[k]].count = 0)
            => /\ yielded[k] = 0
               /\ \A i \in 1..Len(rows) : rows[i].pcap_index # k
               /\ record.pcap_index >= k
               /\ (k = Len(fed) => record.pcap_index = k)

\* C8: a Count = 0 packet was processed second, after a record that wrote
\* rows; it wrote none and pcap_index is 2.
WitnessC8 ==
    /\ Len(fed) = 2
    /\ Capture[fed[2]].udp /\ Capture[fed[2]].count = 0
    /\ yielded[1] > 0
    /\ yielded[2] = 0
    /\ pc = "idle"
    /\ record.pcap_index = 2

\* C9: a pcap record whose MoldUDP64 header has Count = 0xFFFF is treated as
\* one with Count = 0: no message body is read and no row is written.
ClaimC9 ==
    \A k \in 1..Len(fed) :
        (Capture[fed[k]].udp /\ Capture[fed[k]].count = 65535)
            => /\ yielded[k] = 0
               /\ ~ (k = Len(fed) /\ pc = "crashed")

\* C10: rows reach the writer in the order of (pcap_index, message_index):
\* of any two rows, the one written first has the smaller pcap_index, or the
\* same pcap_index and the smaller message_index.
ClaimC10 ==
    \A i \in 1..Len(rows) : \A j \in (i + 1)..Len(rows) : Before(rows[i], rows[j])

-----------------------------------------------------------------------------
(* The field codecs.                                                       *)

\* offset, from the type byte, of the field `name` of a message of type t
RECURSIVE OffsetIn(_, _, _)
OffsetIn(names, name, k) ==
    IF k > Len(names) \/ names[k] = name THEN TypeSize
    ELSE Fields[names[k]].size + OffsetIn(names, name, k + 1)

\* the bytes of the field `name` in the message block a row was decoded from
InputField(row, name) ==
    LET body == RowInput(row).bodies[row.message_index]
        off  == OffsetIn(Handler(row.message_type), name, 1)
    IN  SubSeq(body, off + 1, off + Fields[name].size)

\* the fields of kind k a message of type t has
FieldsOfKind(t, k) == { name \in HandlerFields(t) : Fields[name].kind = k }

\* a row of a catalog type decoded from a well-formed packet
Decoded(row) == row.message_type \in Catalog /\ FromWellFormed(row)

RECURSIVE StripTrailing(_)
StripTrailing(b) ==
    IF b # << >> /\ b[Len(b)] = 32 THEN StripTrailing(SubSeq(b, 1, Len(b) - 1)) ELSE b

\* C11: the text decoded from a fixed-width ASCII field is the field's bytes
\* without their trailing spaces; leading and interior spaces are kept
\* ("AB DE   " decodes to "AB DE").
ClaimC11 ==
    \A i \in 1..Len(rows) :
        Decoded(rows[i]) =>
            \A name \in FieldsOfKind(rows[i].message_type, "ascii") :
                /\ name \in DOMAIN rows[i].opt
                /\ rows[i].opt[name] = StripTrailing(InputField(rows[i], name))

\* C12: a fixed-width ASCII field is always present in the row of its
\* message; it never ends in a space; it is the empty text when the field
\* is all spaces; and a field padded on the right only ("ABCD    ") decodes
\* to its text before the padding.
TheoremC12 ==
    \A i \in 1..Len(rows) :
        Decoded(rows[i]) =>
            \A name \in FieldsOfKind(rows[i].message_type, "ascii") :
                LET in   == InputField(rows[i], name)
                    text == StripTrailing(in)
                IN  /\ name \in DOMAIN rows[i].opt
                    /\ LET out == rows[i].opt[name]
                       IN  /\ out = << >> \/ out[Len(out)] # 32
                           /\ text = << >> => out = << >>
                           /\ (\A j \in 1..Len(text) : text[j] # 32) => out = text

\* C12: an 'F' row whose stock field was eight spaces: stock is present and
\* empty.
WitnessC12 ==
    \E i \in 1..Len(rows) :
        /\ Decoded(rows[i])
        /\ rows[i].message_type = 70
        /\ InputField(rows[i], "stock") = << 32, 32, 32, 32, 32, 32, 32, 32 >>
        /\ "stock" \in DOMAIN rows[i].opt
        /\ rows[i].opt["stock"] = << >>

\* the field set after `name` by the handler of type t, or name itself
FieldAfter(t, name) ==
    LET names == Handler(t)
        k     == CHOOSE j \in 1..Len(names) : names[j] = name
    IN  IF k < Len(names) THEN names[k + 1] ELSE name

\* C13: the 6-byte timestamp decodes to b0*2^40 + ... + b5 in 64 bits (the
\* digits 0, 0, b0, ..., b5), which is 2^48 - 1 for six 0xFF bytes and
\* 57600 for 00 00 00 00 E1 00, and the cursor is advanced by 6: the next
\* field is decoded from the bytes that follow the timestamp.
TheoremC13 ==
    \A i \in 1..Len(rows) :
        (Decoded(rows[i]) /\ "timestamp" \in HandlerFields(rows[i].message_type)) =>
            LET in   == InputField(rows[i], "timestamp")
                next == FieldAfter(rows[i].message_type, "timestamp")
            IN  /\ "timestamp" \in DOMAIN rows[i].opt
                /\ LET out == rows[i].opt["timestamp"]
                   IN  /\ out = << 0, 0 >> \o in
                       /\ in = << 255, 255, 255, 255, 255, 255 >>
                             => out = << 0, 0, 255, 255, 255, 255, 255, 255 >>
                       /\ in = << 0, 0, 0, 0, 225, 0 >>
                             => /\ SubSeq(out, 1, 6) = Zeros(6)
                                /\ U16(SubSeq(out, 7, 8)) = 57600
                /\ Fields[next].kind \in {"be", "char"}
                      => rows[i].opt[next] = InputField(rows[i], next)

\* C13: a row decoded from a timestamp of six 0xFF bytes carries 2^48 - 1,
\* and the order reference number that follows it is decoded in place.
WitnessC13 ==
    \E i \in 1..Len(rows) :
        /\ Decoded(rows[i])
        /\ rows[i].message_type = 70
        /\ InputField(rows[i], "timestamp") = << 255, 255, 255, 255, 255, 255 >>
        /\ rows[i].opt["timestamp"] = << 0, 0, 255, 255, 255, 255, 255, 255 >>
        /\ rows[i].opt["order_reference_number"] = << 65, 65, 65, 65, 65, 65, 65, 65 >>

-----------------------------------------------------------------------------
(* The demuxer.                                                            *)

\* a frame with one 802.1Q tag: 0x8100 at offset 12, 0x0800 four bytes later
Tagged(f) ==
    /\ Len(f.data) >= Len(EthVlan)
    /\ SubSeq(f.data, EtherAddrs + 1, EtherAddrs + 2) = << 129, 0 >>
    /\ SubSeq(f.data, EtherAddrs + ShimLen + 1, EtherAddrs + ShimLen + 2) = << 8, 0 >>

\* the frame f without the four bytes of its tag
Untag(f) ==
    [f EXCEPT !.data = SubSeq(@, 1, EtherAddrs) \o SubSeq(@, EtherAddrs + ShimLen + 1, Len(@))]

\* C14: for a frame with one 802.1Q tag carrying IPv4/UDP the demuxer
\* succeeds with the payload at offset 12 + 4 + 2 + IHL*4 + 8 and the length
\* of the UDP length field minus 8: the payload, and the MoldUDP64 header
\* read from it, that the untagged frame of the same packet yields.
TheoremC14 ==
    \A k \in 1..Len(fed) :
        LET r == Capture[fed[k]]
            f == r.frame
        IN  (/\ k = Len(fed)
             /\ Tagged(f) /\ r.udp /\ ~ Truncated(r) /\ r.count > 0
             /\ yielded[k] = 0
             /\ pc # "threw")
            => LET ihl     == f.data[Len(EthVlan) + 1] % 16
                   udp     == EtherAddrs + ShimLen + 2 + ihl * 4
                   payload == udp + UdpHdrLen
                   plain   == Demux(Untag(f), 0)
               IN  /\ pc = "messages"
                   /\ packet = fed[k]
                   /\ current = payload + SessionSize + SequenceSize + IndexSize
                   /\ length = f.data[udp + 5] * 256 + f.data[udp + 6] - UdpHdrLen
                   /\ record.session = r.session
                   /\ record.message_sequence = r.sequence
                   /\ record.message_count = r.count
                   /\ plain.ok
                   /\ plain.payload = payload - ShimLen
                   /\ plain.length = length
                   /\ \A i \in 0..(length - 1) :
                         ByteAt(Untag(f), 0, plain.payload + i) = ByteAt(f, 0, payload + i)

\* C14: the demuxer has succeeded on a tagged frame whose IPv4 header is 24
\* bytes long: the cursor is 20 bytes after offset 12 + 4 + 2 + 24 + 8 = 50.
WitnessC14 ==
    /\ pc = "messages"
    /\ packet = Len(Capture)
    /\ Tagged(Frame)
    /\ Frame.data[Len(EthVlan) + 1] % 16 = 6
    /\ yielded[Len(fed)] = 0
    /\ current = 70
    /\ length = Len(Frame.data) - 50
    /\ record.session = Session2

-----------------------------------------------------------------------------
(* Malformed input.                                                        *)

\* a message block of a catalog type whose length is not 1 plus the widths
\* of the fields of its type
LengthMismatch(body) ==
    body[1] \in Catalog /\ Len(body) # TypeSize + Width(Handler(body[1]), 1)

\* C15: a message block whose length differs from the length its type has
\* in the catalog writes no row, and the blocks after it are processed: a
\* processed packet has written one row for each of its other blocks, and
\* no row comes from a block of the wrong length.
ClaimC15 ==
    /\ \A k \in 1..Len(fed) :
         (WellFormed(Capture[fed[k]]) /\ Completed(k))
             => yielded[k] = Cardinality({ j \in 1..Len(Capture[fed[k]].bodies) :
                                             ~ LengthMismatch(Capture[fed[k]].bodies[j]) })
    /\ \A i \in 1..Len(rows) :
         (FromWellFormed(rows[i]) /\ rows[i].message_index \in 1..RowInput(rows[i]).count)
             => ~ LengthMismatch(RowInput(rows[i]).bodies[rows[i].message_index])

\* C16: a pcap record whose capture ends inside its Ethernet, IP or UDP
\* header is skipped: nothing outside the record is read (so the process
\* survives it), no row is written for it, and the records after it are
\* processed.
ClaimC16 ==
    \A k \in 1..Len(fed) :
        Truncated(Capture[fed[k]])
            => /\ yielded[k] = 0
               /\ \A i \in 1..Len(rows) : rows[i].pcap_index # k
               /\ ~ (k = Len(fed) /\ pc \in {"crashed", "messages"})

-----------------------------------------------------------------------------
(* The driver.                                                             *)

\* write_parquet has been left after it had opened the capture
LeftWriteParquet ==
    /\ main.opened
    /\ \/ pc \in {"done", "exited"}
       \/ pc = "threw"

\* C17: whenever write_parquet has been left after it had opened the pcap
\* handle (at end of file, by the constructor of the converter failing to
\* open the output, by the writer throwing) the pcap handle is closed and
\* the rows written are covered by a flushed row group.
ClaimC17 == LeftWriteParquet => (~ pcap_open /\ flushed = nrows)

\* C18: the pcap handle is never closed while the writer is open.
ClaimC18 == ~ pcap_open => ~ writer_open

\* the number of 1s among the values pcap_next_ex returned
RECURSIVE Successes(_)
Successes(s) ==
    IF s = << >> THEN 0 ELSE (IF Head(s) = 1 THEN 1 ELSE 0) + Successes(Tail(s))

\* C19: the first value other than 1 that pcap_next_ex returns ends the
\* loop.  Every 1 returned has handed one record to converter::process and
\* advanced pcap_index by one; a value other than 1 is the last value
\* returned, advances nothing, and is followed by the flush of the row
\* group, the close of the capture and the return, with every record
\* returned before it processed to the end.
TheoremC19 ==
    /\ \A i \in 1..(Len(returned) - 1) : returned[i] = 1
    /\ Len(fed) = Successes(returned)
    /\ record.pcap_index = Len(fed)
    /\ (returned # << >> /\ returned[Len(returned)] # 1)
          => /\ \/ pc \in {"closing", "closed", "done", "exited"}
                \/ pc = "threw" /\ Len(main.calls) = 2
             /\ flushed = nrows
             /\ pc # "closing" => ~ pcap_open
    /\ (main.opened /\ pc \in {"done", "exited"})
          => (returned # << >> /\ returned[Len(returned)] # 1)

\* C19: pcap_next_ex returned 1, 1 and then 0 (timeout): write_parquet has
\* returned with both records processed and their rows flushed.
WitnessC19 ==
    /\ pc = "done"
    /\ returned = << 1, 1, 0 >>
    /\ Len(fed) = 2
    /\ record.pcap_index = 2
    /\ nrows > 0
    /\ flushed = nrows
    /\ ~ pcap_open

\* C20: with one argument main converts argv[1] to "itch.parquet", with two
\* argv[1] to argv[2]; with none or more than two it prints the usage line
\* and returns -1 without calling write_parquet or read_parquet; it returns
\* 0 only after write_parquet and then read_parquet.
TheoremC20 ==
    pc # "main" =>
        /\ main.argc = 2
              => /\ main.pcap_file = "argv[1]" /\ main.parquet_file = "itch.parquet"
                 /\ main.calls # << >> /\ main.calls[1] = "write_parquet"
                 /\ ~ main.usage
        /\ main.argc = 3
              => /\ main.pcap_file = "argv[1]" /\ main.parquet_file = "argv[2]"
                 /\ main.calls # << >> /\ main.calls[1] = "write_parquet"
                 /\ ~ main.usage
        /\ main.argc \notin {2, 3}
              => /\ main.usage
                 /\ main.status = "-1"
                 /\ main.calls = << >>
                 /\ pc = "exited"
        /\ main.status = "0"
              => /\ main.calls = << "write_parquet", "read_parquet" >>
                 /\ pc = "exited"
        /\ (pc = "exited" /\ main.argc \in {2, 3}) => main.status = "0"

\* C20: main was started with one argument, has called write_parquet and
\* read_parquet on "itch.parquet" and has returned 0.
WitnessC20 ==
    /\ pc = "exited"
    /\ main.argc = 2
    /\ main.parquet_file = "itch.parquet"
    /\ main.calls = << "write_parquet", "read_parquet" >>
    /\ main.status = "0"
    /\ nrows > 0

-----------------------------------------------------------------------------
(* The schema and the round trip.                                          *)

\* the schema of the program that runs
Schema == IF main.feed = "jnx" THEN JnxNodes ELSE Nodes

\* a is before b in the order of the dictionary, by ASCII code
RECURSIVE LexLess(_, _)
LexLess(a, b) ==
    IF b = << >> THEN FALSE
    ELSE IF a = << >> THEN TRUE
    ELSE IF Head(a) # Head(b) THEN Head(a) < Head(b)
    ELSE LexLess(Tail(a), Tail(b))

\* C21: the schema of the open writer starts with the columns pcap_index,
\* pcap_timestamp, session, message_sequence, message_index, message_type,
\* so named and in this order; the columns after them are in ascending
\* alphabetical order of their names; no column is named message_length.
ClaimC21 ==
    writer_open =>
        /\ SubSeq(Schema, 1, 6) = << "pcap_index", "pcap_timestamp", "session",
                                    "message_sequence", "message_index", "message_type" >>
        /\ \A i \in 7..(Len(Schema) - 1) :
              LexLess(Spelling[Schema[i]], Spelling[Schema[i + 1]])
        /\ \A i \in 1..Len(Schema) : Schema[i] # "message_length"

\* the name of the node of a member of record
NodeName(member) == IF member = "pcap_timestamp" THEN "timestamp" ELSE member

\* the members the writer and the reader of the program that runs take
WriterMembers == IF main.feed = "jnx" THEN JnxWriterOrder ELSE WriterOrder

ReaderMembers == IF main.feed = "jnx" THEN JnxReaderOrder ELSE ReaderOrder

\* C22: when main has returned 0, read_parquet has read as many rows as the
\* converter wrote, in the same order, each equal to the row written in
\* every framing column and every optional column, absent ones staying
\* absent; and writer, reader and schema list the same members position by
\* position.
TheoremC22 ==
    /\ (pc = "exited" /\ main.status = "0")
          => /\ Len(main.read) = nrows
             /\ main.read = rows
    /\ writer_open
          => /\ WriterMembers = ReaderMembers
             /\ Len(Schema) = Len(WriterMembers)
             /\ \A i \in 1..Len(Schema) : Schema[i] = NodeName(WriterMembers[i])

\* C22: main has returned 0 after reading back an 'F' row with its stock
\* and the 'D' row after it, in which stock is absent.
WitnessC22 ==
    /\ pc = "exited"
    /\ main.status = "0"
    /\ main.feed = "nasdaq"
    /\ \E i \in 1..(Len(main.read) - 1) :
         /\ main.read[i] = rows[i]
         /\ main.read[i].message_type = 70
         /\ "stock" \in DOMAIN main.read[i].opt
         /\ main.read[i + 1] = rows[i + 1]
         /\ main.read[i + 1].message_type = 68
         /\ "stock" \notin DOMAIN main.read[i + 1].opt

-----------------------------------------------------------------------------
(* The JNX feed.                                                           *)

JnxHandlerFields(t) == { JnxHandler(t)[k] : k \in 1..Len(JnxHandler(t)) }

\* a row of the JNX converter decoded from an 'F' message of a well-formed
\* packet
JnxOrderAdded(row) ==
    /\ main.feed = "jnx"
    /\ FromWellFormed(row)
    /\ row.message_type = 70
    /\ row.message_index \in 1..RowInput(row).count
    /\ RowInput(row).bodies[row.message_index][1] = 70

\* C23 as stated: the row of a JNX 'F' message has ten populated message
\* fields, group and attribution among them, trimmed; all others are null.
ClaimC23 ==
    \A i \in 1..Len(rows) :
        JnxOrderAdded(rows[i]) =>
            /\ Cardinality(DOMAIN rows[i].opt) = 10
            /\ {"group", "attribution"} \subseteq DOMAIN rows[i].opt
            /\ RowInput(rows[i]).bodies[rows[i].message_index] = JnxMsgF
                  => /\ rows[i].opt["group"] = << 74, 80, 78 >>
                     /\ rows[i].opt["attribution"] = << 77, 77, 48, 49 >>

\* C23 as amended: a JNX packet with one 'F' message writes one row, and the
\* row of a JNX 'F' message has nine populated message fields: timestamp_
\* nanoseconds, order_number, buy_sell_indicator, quantity, orderbook_id,
\* group, price, attribution, order_type (ten columns with message_type),
\* with group = "JPN" from "JPN " and attribution = "MM01"; all other message
\* fields are null.
TheoremC23 ==
    /\ \A i \in 1..Len(rows) :
         JnxOrderAdded(rows[i]) =>
            /\ DOMAIN rows[i].opt
                  = { "timestamp_nanoseconds", "order_number", "buy_sell_indicator",
                      "quantity", "orderbook_id", "group", "price", "attribution",
                      "order_type" }
            /\ Cardinality(DOMAIN rows[i].opt) = 9
            /\ RowInput(rows[i]).bodies[rows[i].message_index] = JnxMsgF
                  => /\ rows[i].opt["group"] = << 74, 80, 78 >>
                     /\ rows[i].opt["attribution"] = << 77, 77, 48, 49 >>
                     /\ rows[i].opt["quantity"] = << 0, 0, 0, 100 >>
                     /\ rows[i].opt["order_type"] = << 76 >>
    /\ \A k \in 1..Len(fed) :
         (main.feed = "jnx" /\ Capture[fed[k]].bodies = << JnxMsgF >> /\ Completed(k))
             => yielded[k] = 1

\* C23: the JNX converter has written the row of the 'F' message after the
\* row of an 'R' message: orderbook_code, set by 'R', is null in it, group
\* is "JPN" and attribution "MM01".
WitnessC23 ==
    /\ main.feed = "jnx"
    /\ \E i \in 1..(Len(rows) - 1) :
         /\ rows[i].message_type = 82
         /\ "orderbook_code" \in DOMAIN rows[i].opt
         /\ JnxOrderAdded(rows[i + 1])
         /\ RowInput(rows[i + 1]).bodies = << JnxMsgF >>
         /\ "orderbook_code" \notin DOMAIN rows[i + 1].opt
         /\ Cardinality(DOMAIN rows[i + 1].opt) = 9
         /\ rows[i + 1].opt["group"] = << 74, 80, 78 >>
         /\ rows[i + 1].opt["attribution"] = << 77, 77, 48, 49 >>

-----------------------------------------------------------------------------
(* The block cursor.                                                       *)

\* the offset in the frame of record r just after its i-th message block,
\* each block taken as long as its own length prefix says
RECURSIVE CursorAfter(_, _)
CursorAfter(r, i) ==
    IF i = 0 THEN r.headers + SessionSize + SequenceSize + IndexSize
    ELSE LET c == CursorAfter(r, i - 1)
         IN  c + LengthSize + ntohs(r.frame, 0, c)

\* the sum of 2 + L_j over the first i bodies of record r
RECURSIVE BlockSum(_, _)
BlockSum(r, i) ==
    IF i = 0 THEN 0 ELSE BlockSum(r, i - 1) + LengthSize + Len(r.bodies[i])

\* C24: after the i-th block of a packet has been processed the cursor is at
\* payload offset 20 + the sum over j <= i of (2 + L_j), whatever the types
\* of the messages and whatever the L_j; the length prefix and the type of
\* the next block are read there.
TheoremC24 ==
    /\ (pc = "messages" /\ Capture[packet].udp /\ ~ Truncated(Capture[packet])
          /\ CursorAfter(Capture[packet], record.message_index)
                <= BufLen(Capture[packet].frame))
          => /\ current = CursorAfter(Capture[packet], record.message_index)
             /\ record.message_index <= Len(Capture[packet].bodies)
                   => current = Capture[packet].headers + 20
                                   + BlockSum(Capture[packet], record.message_index)
    /\ \A i \in 1..Len(rows) :
         (FromWellFormed(rows[i]) /\ rows[i].message_index \in 1..RowInput(rows[i]).count)
             => rows[i].message_type = RowInput(rows[i]).bodies[rows[i].message_index][1]

\* C24: the second block of a packet has been processed whose first block is
\* one byte longer, or four bytes shorter, than its type's message: the
\* cursor is after the second block and the second row has the second
\* block's type.
WitnessC24 ==
    /\ pc = "messages"
    /\ record.message_index = 2
    /\ Capture[packet].count = 2
    /\ LengthMismatch(Capture[packet].bodies[1])
    /\ current = Capture[packet].headers + 20 + BlockSum(Capture[packet], 2)
    /\ current = BufLen(Capture[packet].frame)
    /\ Len(rows) >= 2
    /\ rows[Len(rows)].message_type = Capture[packet].bodies[2][1]

-----------------------------------------------------------------------------
(* Frames that carry no MoldUDP64 packet.                                  *)

\* no 0x0800 lies at offset 12, 16, 20, ... of the captured bytes of f
NoEtherTypeIP(f) ==
    \A p \in EtherAddrs..(BufLen(f) - 2) :
        (p - EtherAddrs) % ShimLen = 0 => ntohs(f, 0, p) # ETHERTYPE_IP

\* C25: the EtherType scan stops for every frame: a frame in which no 0x0800
\* is found is skipped, no row is written for it, and processing continues
\* with the next record.
ClaimC25 ==
    \A k \in 1..Len(fed) :
        NoEtherTypeIP(Capture[fed[k]].frame) =>
            /\ yielded[k] = 0
            /\ ~ (pc = "crashed" /\ k = Len(fed))

\* an untagged IPv4 frame whose protocol field is not UDP
IPv4NotUdp(r) ==
    /\ ntohs(r.frame, 0, EtherAddrs) = ETHERTYPE_IP
    /\ EtherAddrs + 2 + IpProtoOff < BufLen(r.frame)
    /\ ByteAt(r.frame, 0, EtherAddrs + 2 + IpProtoOff) # IPPROTO_UDP

\* C26: a step that processes an IPv4 frame whose protocol is not UDP writes
\* no row and leaves session, message_sequence, message_index, pcap_timestamp
\* and every optional field of the long-lived row as they were; pcap_index
\* grows by one, and the converter is ready for the next record.
TheoremC26 ==
    [][ (Len(fed') = Len(fed) + 1 /\ IPv4NotUdp(Capture[fed'[Len(fed')]]))
           => /\ record' = [record EXCEPT !.pcap_index = @ + 1]
              /\ rows' = rows
              /\ nrows' = nrows
              /\ yielded'[Len(fed')] = 0
              /\ pc' = "idle" ]_vars

\* C26: a record that is not UDP has been processed after a packet that
\* wrote rows: the long-lived row still holds the session of that packet, the
\* message index its loop ended with and the optional fields of its last
\* message, only its pcap_index counts the skipped record.
WitnessC26 ==
    /\ pc = "idle"
    /\ Len(fed) >= 2
    /\ IPv4NotUdp(Capture[fed[Len(fed)]])
    /\ yielded[Len(fed)] = 0
    /\ yielded[Len(fed) - 1] > 0
    /\ record.pcap_index = Len(fed)
    /\ record.session = Capture[fed[Len(fed) - 1]].session
    /\ record.message_index = Capture[fed[Len(fed) - 1]].count + 1
    /\ DOMAIN record.opt # {}
    /\ Len(rows) > 0
    /\ rows[Len(rows)].pcap_index = Len(fed) - 1

-----------------------------------------------------------------------------
(* The message loop and what it reads.                                     *)

\* C27: the message loop of a packet ends for every Count in 0..65535 after
\* exactly Count iterations: no packet yields more rows than its Count, a
\* processed packet has yielded Count rows, and the 16-bit message_index is
\* the number of iterations made, never a value it has wrapped around to.
ClaimC27 ==
    /\ \A k \in 1..Len(fed) :
         WellFormed(Capture[fed[k]]) \/ Capture[fed[k]].count = 65535
             => /\ yielded[k] <= Capture[fed[k]].count
                /\ Completed(k) => yielded[k] = Capture[fed[k]].count
    /\ (pc = "messages" /\ Capture[packet].udp)
          => record.message_index = yielded[Len(fed)]

\* bytes the handler of the last message processed reads, its type included
LastMessageRead ==
    TypeSize + (IF main.feed = "jnx"
                THEN JnxWidth(JnxHandler(record.message_type), 1)
                ELSE Width(Handler(record.message_type), 1))

\* C28: while a packet is processed only bytes of the UDP payload are read,
\* whose length the demuxer returned: the cursor is never more than that
\* length after the start of the payload, and the fields of a message are
\* read inside the L bytes of its block.
ClaimC28 ==
    (pc = "messages" /\ Capture[packet].udp /\ ~ Truncated(Capture[packet]))
        => /\ current - Capture[packet].headers <= length
           /\ record.message_index > 0 => LastMessageRead <= record.message_length

\* C29: the column names of the schema of each feed are pairwise distinct.
ClaimC29 ==
    writer_open =>
        \A i \in 1..Len(Schema) : \A j \in 1..Len(Schema) :
            i # j => Schema[i] # Schema[j]

\* C30: the session of every row is 10 bytes long; for a row of a packet
\* captured whole it is the 10 bytes at offset 0 of the payload, trailing
\* 0x20 included; all rows of a pcap record have the same session.
TheoremC30 ==
    /\ \A i \in 1..Len(rows) :
         /\ Len(rows[i].session) = 10
         /\ (rows[i].pcap_index \in 1..Len(fed) /\ RowInput(rows[i]).udp
               /\ ~ Truncated(RowInput(rows[i])))
               => rows[i].session = RowInput(rows[i]).session
    /\ \A i \in 1..Len(rows) : \A j \in 1..Len(rows) :
         rows[i].pcap_index = rows[j].pcap_index => rows[i].session = rows[j].session

\* C30: two rows of one packet have been written whose session is "ITCH"
\* followed by six spaces; both rows carry all ten bytes.
WitnessC30 ==
    \E i \in 1..(Len(rows) - 1) :
        /\ rows[i].pcap_index = rows[i + 1].pcap_index
        /\ rows[i].message_index = 1
        /\ rows[i + 1].message_index = 2
        /\ rows[i].session = << 73, 84, 67, 72, 32, 32, 32, 32, 32, 32 >>
        /\ rows[i + 1].session = rows[i].session

====
